---- MODULE Spec2Model ----
(***************************************************************************)
(* Model of the SceneFlow FFmpeg renderer's filter-graph compiler          *)
(* (docker/ffmpeg-renderer/ffmpeg_utils.py).                               *)
(*                                                                         *)
(* The compiler is a set of pure Python functions.  Each function is an    *)
(* operator computed the way the code computes it, and each call of a      *)
(* public function is one action: it draws the arguments from bounded      *)
(* sets, and records the function, its arguments and its return value.     *)
(*                                                                         *)
(* Representation.                                                         *)
(*  - A number (Python int or float) is an exact rational <<num, den>>     *)
(*    with den > 0; <<0, 0>> stands for a raised ZeroDivisionError.        *)
(*    Arithmetic is exact: the rounding of binary floats is not modelled.  *)
(*  - A stream label "[name{i}]" is <<name, i>>; a label without an index  *)
(*    ("[outv]") carries index -1; a raw input reference "[k:v]" / "[k:a]" *)
(*    is <<"in:v", k>> / <<"in:a", k>>.                                    *)
(*  - A filter stage "[in..]f1=..,f2=..[out]" is a record                  *)
(*    [ins, chain, p, out]: consumed labels, filter names in chain order,  *)
(*    the parameters the code formats into the string, produced label.     *)
(*  - The command (a Python list of strings) is a sequence of tokens       *)
(*    [k, v]: k = "lit" for a literal argument, "path" for a file path,    *)
(*    "graph" for the -filter_complex value (the stages that are joined    *)
(*    by ';'), "label" for a -map operand, "num" for a formatted number.   *)
(***************************************************************************)
EXTENDS Integers, Sequences, FiniteSets, TLC

VARIABLES
  pc,         \* "call": the function is about to run; "done": it has returned
  fn,         \* the function being called
  args,       \* the arguments of the call
  ret,        \* the value it returned (<<>> until it has)
  fontFiles,  \* the font files present on disk (read by os.path.exists)
  history     \* the compilations made so far by this process, in call order

vars == <<pc, fn, args, ret, fontFiles, history>>

-----------------------------------------------------------------------------
(* Bounds of the model                                                     *)

MaxSegs == 2
MaxClips == 2
MaxOverlays == 3
MaxFrames == 3
MaxCalls == 3
MaxTime == 6
MaxText == 3

-----------------------------------------------------------------------------
(* Numbers                                                                 *)

Fault == <<0, 0>>

IsFault(r) == r[2] = 0

RECURSIVE Gcd(_, _)
Gcd(a, b) == IF b = 0 THEN a ELSE Gcd(b, a % b)

Abs(n) == IF n < 0 THEN -n ELSE n

\* The rational n/d (d # 0) in lowest terms with a positive denominator.
Norm(n, d) ==
  LET g == Gcd(Abs(n), Abs(d))
      sg == IF d < 0 THEN -1 ELSE 1
  IN <<sg * (n \div g), sg * (d \div g)>>

R(n) == <<n, 1>>

Frac(n, d) == Norm(n, d)

RAdd(a, b) ==
  IF IsFault(a) \/ IsFault(b) THEN Fault
  ELSE Norm(a[1] * b[2] + b[1] * a[2], a[2] * b[2])

RSub(a, b) ==
  IF IsFault(a) \/ IsFault(b) THEN Fault
  ELSE Norm(a[1] * b[2] - b[1] * a[2], a[2] * b[2])

RMul(a, b) ==
  IF IsFault(a) \/ IsFault(b) THEN Fault
  ELSE Norm(a[1] * b[1], a[2] * b[2])

\* Python's a / b: raises ZeroDivisionError when b is zero.
RDiv(a, b) ==
  IF IsFault(a) \/ IsFault(b) \/ b[1] = 0 THEN Fault
  ELSE Norm(a[1] * b[2], a[2] * b[1])

REq(a, b) == ~IsFault(a) /\ ~IsFault(b) /\ a[1] * b[2] = b[1] * a[2]

RLe(a, b) == ~IsFault(a) /\ ~IsFault(b) /\ a[1] * b[2] <= b[1] * a[2]

RLt(a, b) == ~IsFault(a) /\ ~IsFault(b) /\ a[1] * b[2] < b[1] * a[2]

RMin(a, b) == IF RLe(a, b) THEN a ELSE b

\* Python's int(x) for a rational x: truncation toward zero.
RTrunc(a) ==
  IF a[1] >= 0 THEN a[1] \div a[2] ELSE -((-a[1]) \div a[2])

-----------------------------------------------------------------------------
(* Module constants                                                        *)

SCALE_FACTOR == 2

ResolutionNames == {"720p", "1080p", "4K"}

RESOLUTIONS(name) ==
  CASE name = "720p" -> [width |-> 1280, height |-> 720]
    [] name = "1080p" -> [width |-> 1920, height |-> 1080]
    [] name = "4K" -> [width |-> 3840, height |-> 2160]

\* RESOLUTIONS.get(resolution, RESOLUTIONS['1080p'])
ResolutionGet(name) ==
  IF name \in ResolutionNames THEN RESOLUTIONS(name) ELSE RESOLUTIONS("1080p")

-----------------------------------------------------------------------------
(* Labels                                                                  *)

Lbl(name, i) == <<name, i>>

RawV(k) == <<"in:v", k>>

RawA(k) == <<"in:a", k>>

IsRaw(l) == l[1] \in {"in:v", "in:a"}

-----------------------------------------------------------------------------
(* build_ken_burns_filter                                                  *)

PerFrame_Unguarded(a, duration_frames) == RDiv(a, R(duration_frames))

\* "a / duration_frames if duration_frames > 0 else 0"
PerFrame(a, duration_frames) ==
  IF duration_frames > 0 THEN RDiv(a, R(duration_frames)) ELSE R(0)

HalfDiff_NotHalved(scaled, dim) == R(scaled - dim)

\* "(scaled_w - width) / 2": the pan headroom and the centre offset of one axis.
HalfDiff(scaled, dim) == RDiv(R(scaled - dim), R(2))

\* The expression "'{base}+{rate}*on'": base + rate * (frame number).
Linear(base, rate) == [base |-> base, rate |-> rate]

build_ken_burns_filter(segment_index, duration_frames, fps, zoom_start, zoom_end, pan_x, pan_y, width, height) ==
  LET zoom_diff == RSub(zoom_end, zoom_start)
      zoom_rate == PerFrame(zoom_diff, duration_frames)
      zoom_expr == Linear(zoom_start, zoom_rate)
      scaled_w == width * SCALE_FACTOR
      scaled_h == height * SCALE_FACTOR
      pan_headroom_x == HalfDiff(scaled_w, width)
      pan_headroom_y == HalfDiff(scaled_h, height)
      pan_per_frame_x == PerFrame(RMul(pan_x, pan_headroom_x), duration_frames)
      pan_per_frame_y == PerFrame(RMul(pan_y, pan_headroom_y), duration_frames)
      center_x == HalfDiff(scaled_w, width)
      center_y == HalfDiff(scaled_h, height)
      x_expr == Linear(center_x, pan_per_frame_x)
      y_expr == Linear(center_y, pan_per_frame_y)
  IN [ins |-> <<RawV(segment_index)>>,
      chain |-> <<"scale", "crop", "zoompan">>,
      p |-> [scale |-> <<scaled_w, scaled_h>>,
             crop |-> <<scaled_w, scaled_h>>,
             z |-> zoom_expr, x |-> x_expr, y |-> y_expr,
             d |-> duration_frames, s |-> <<width, height>>, fps |-> fps],
      out |-> Lbl("v", segment_index)]

\* A division fault anywhere in the function makes the call raise.
KenBurnsRaises(st) ==
  \/ IsFault(st.p.z.base) \/ IsFault(st.p.z.rate)
  \/ IsFault(st.p.x.base) \/ IsFault(st.p.x.rate)
  \/ IsFault(st.p.y.base) \/ IsFault(st.p.y.rate)

\* The engine's value of a Linear expression at output frame number on.
EvalLinear(e, on) == RAdd(e.base, RMul(e.rate, R(on)))

-----------------------------------------------------------------------------
(* Inputs of the Ken Burns generator                                       *)

ZoomChoices == {Frac(100, 100), Frac(105, 100), Frac(110, 100), Frac(150, 100)}

PanChoices == {Frac(-2, 2), Frac(-1, 2), Frac(0, 2), Frac(1, 2), Frac(2, 2), Frac(3, 2)}

FpsChoices == {24, 30}

KenBurnsArgs ==
  {[segment_index |-> i, duration_frames |-> d, fps |-> f,
    zoom_start |-> zs, zoom_end |-> ze, pan_x |-> px, pan_y |-> py,
    width |-> RESOLUTIONS(res).width, height |-> RESOLUTIONS(res).height] :
     i \in 0..1, d \in 0..MaxFrames, f \in FpsChoices,
     zs \in ZoomChoices, ze \in ZoomChoices,
     px \in PanChoices, py \in PanChoices, res \in ResolutionNames}

InitKenBurns ==
  /\ pc = "call"
  /\ fn = "build_ken_burns_filter"
  /\ args \in KenBurnsArgs
  /\ ret = <<>>
  /\ fontFiles = {}
  /\ history = <<>>

CallKenBurns ==
  /\ pc = "call"
  /\ fn = "build_ken_burns_filter"
  /\ ret' = build_ken_burns_filter(args.segment_index, args.duration_frames, args.fps,
                                    args.zoom_start, args.zoom_end, args.pan_x, args.pan_y,
                                    args.width, args.height)
  /\ pc' = "done"
  /\ UNCHANGED <<fn, args, fontFiles, history>>

NextKenBurns == CallKenBurns

SpecKenBurns == InitKenBurns /\ [][NextKenBurns]_vars

-----------------------------------------------------------------------------
(* Claims about build_ken_burns_filter (checked under SpecKenBurns)        *)

KenBurnsDone == pc = "done" /\ fn = "build_ken_burns_filter"

PanInRange(r) == RLe(R(-1), r) /\ RLe(r, R(1))

\* C7: the emitted zoom expression is zoom(n) = zoomStart + rate*n, linear in
\* the frame number n; for D > 0 the rate is (zoomEnd - zoomStart)/D, so that
\* zoom(0) = zoomStart and zoom(D) = zoomEnd; for D = 0 the zoom rate and both
\* pan rates are 0, no division fault is raised and the zoom stays zoomStart.
C7_ZoomLinearNoFault ==
  KenBurnsDone =>
    LET D == args.duration_frames
        z == ret.p.z
    IN /\ ~KenBurnsRaises(ret)
       /\ ret.p.d = D
       /\ REq(EvalLinear(z, 0), args.zoom_start)
       /\ \A n \in 0..MaxFrames :
            REq(RSub(EvalLinear(z, n + 1), EvalLinear(z, n)), z.rate)
       /\ D > 0 =>
            /\ REq(z.rate, RDiv(RSub(args.zoom_end, args.zoom_start), R(D)))
            /\ REq(EvalLinear(z, D), args.zoom_end)
       /\ D = 0 =>
            /\ REq(z.rate, R(0))
            /\ REq(ret.p.x.rate, R(0))
            /\ REq(ret.p.y.rate, R(0))
            /\ \A n \in 0..MaxFrames : REq(EvalLinear(z, n), args.zoom_start)

\* C7 witness: a call with D > 0 and zoomEnd # zoomStart has returned an
\* expression whose value at frame D is zoomEnd.
C7_Witness ==
  /\ KenBurnsDone
  /\ args.duration_frames > 1
  /\ ~REq(args.zoom_start, args.zoom_end)
  /\ REq(EvalLinear(ret.p.z, args.duration_frames), args.zoom_end)

\* C8: for panX, panY in [-1, 1] and D > 0 the pan expressions are, at frame 0,
\* exactly the centre offset ((S-1)/2 * width, (S-1)/2 * height) of the image
\* scaled by S = SCALE_FACTOR; they move by panX*headroomX/D and
\* panY*headroomY/D per frame; the position at frame D lies within the scaled
\* image: 0 <= x(D) <= S*width - width and 0 <= y(D) <= S*height - height.
C8_PanCentredLinearBounded ==
  (KenBurnsDone /\ args.duration_frames > 0
     /\ PanInRange(args.pan_x) /\ PanInRange(args.pan_y)) =>
    LET D == args.duration_frames
        w == args.width
        h == args.height
        hx == Frac((SCALE_FACTOR - 1) * w, 2)
        hy == Frac((SCALE_FACTOR - 1) * h, 2)
        x == ret.p.x
        y == ret.p.y
    IN /\ REq(EvalLinear(x, 0), hx)
       /\ REq(EvalLinear(y, 0), hy)
       /\ REq(x.rate, RDiv(RMul(args.pan_x, hx), R(D)))
       /\ REq(y.rate, RDiv(RMul(args.pan_y, hy), R(D)))
       /\ \A n \in 0..MaxFrames :
            /\ REq(RSub(EvalLinear(x, n + 1), EvalLinear(x, n)), x.rate)
            /\ REq(RSub(EvalLinear(y, n + 1), EvalLinear(y, n)), y.rate)
       /\ RLe(R(0), EvalLinear(x, D))
       /\ RLe(EvalLinear(x, D), R(SCALE_FACTOR * w - w))
       /\ RLe(R(0), EvalLinear(y, D))
       /\ RLe(EvalLinear(y, D), R(SCALE_FACTOR * h - h))

\* C8 witness: a call with full pan to the right and up (panX = 1, panY = -1)
\* and D > 0 has returned; the position at frame D is the edge of the headroom.
C8_Witness ==
  /\ KenBurnsDone
  /\ args.duration_frames > 1
  /\ REq(args.pan_x, R(1))
  /\ REq(args.pan_y, R(-1))
  /\ REq(EvalLinear(ret.p.x, args.duration_frames), R(SCALE_FACTOR * args.width - args.width))
  /\ REq(EvalLinear(ret.p.y, args.duration_frames), R(0))

-----------------------------------------------------------------------------
(* escape_drawtext: a text is a sequence of one-character strings          *)

RECURSIVE Replace(_, _, _)
\* Python's text.replace(ch, rep) for a one-character ch.
Replace(text, ch, rep) ==
  IF text = <<>> THEN <<>>
  ELSE (IF Head(text) = ch THEN rep ELSE <<Head(text)>>) \o Replace(Tail(text), ch, rep)

escape_drawtext_BackslashLast(text) ==
  LET t1 == Replace(text, "'", <<"\\", "'">>)
      t2 == Replace(t1, ":", <<"\\", ":">>)
      t3 == Replace(t2, "%", <<"\\", "%">>)
      t4 == Replace(t3, "\\", <<"\\", "\\", "\\", "\\">>)
  IN t4

escape_drawtext(text) ==
  LET t1 == Replace(text, "\\", <<"\\", "\\", "\\", "\\">>)
      t2 == Replace(t1, "'", <<"\\", "'">>)
      t3 == Replace(t2, ":", <<"\\", ":">>)
      t4 == Replace(t3, "%", <<"\\", "%">>)
  IN t4

-----------------------------------------------------------------------------
(* hex_to_ffmpeg_color: a colour "#RRGGBB" is [hashes, hex], the number of *)
(* leading '#' characters and the rest of the string; None is [0, ""]      *)

Color(hashes, hex) == [hashes |-> hashes, hex |-> hex]

NoColor == Color(0, "")

\* Python's truth value of the colour string ("if bg_color:").
Truthy(hex_color) == hex_color.hashes > 0 \/ hex_color.hex # ""

hex_to_ffmpeg_color(hex_color, opacity) ==
  LET stripped == hex_color.hex
      alpha == RTrunc(RMul(opacity, R(255)))
  IN [hex |-> stripped, alpha |-> alpha]

-----------------------------------------------------------------------------
(* get_font_file                                                           *)

DEFAULT_FONT == "DejaVu Sans"

FontMapKeys == {"Montserrat", "Roboto", "RobotoMono", "Lora"}

FONT_MAP(family) ==
  CASE family = "Montserrat" -> "Montserrat"
    [] family = "Roboto" -> "Roboto"
    [] family = "RobotoMono" -> "Roboto Mono"
    [] family = "Lora" -> "Lora"

WeightKeys == {100, 200, 300, 400, 500, 600, 700, 800, 900}

weight_suffixes(w) ==
  CASE w = 100 -> "Thin"
    [] w = 200 -> "ExtraLight"
    [] w = 300 -> "Light"
    [] w = 400 -> "Regular"
    [] w = 500 -> "Medium"
    [] w = 600 -> "SemiBold"
    [] w = 700 -> "Bold"
    [] w = 800 -> "ExtraBold"
    [] w = 900 -> "Black"

\* min(weight_suffixes.keys(), key=lambda x: abs(x - font_weight)): the first
\* key, in the dict's (ascending) order, at the least distance.
ClosestWeight(font_weight) ==
  CHOOSE k \in WeightKeys :
    \A j \in WeightKeys :
      \/ Abs(k - font_weight) < Abs(j - font_weight)
      \/ (Abs(k - font_weight) = Abs(j - font_weight) /\ k <= j)

FontDirKeys == {"Montserrat", "Roboto", "RobotoMono", "Lora"}

font_dir_map(family) ==
  CASE family = "Montserrat" -> "/usr/share/fonts/google/montserrat"
    [] family = "Roboto" -> "/usr/share/fonts/google/roboto"
    [] family = "RobotoMono" -> "/usr/share/fonts/google/robotomono"
    [] family = "Lora" -> "/usr/share/fonts/liberation2"

font_name_map(family) ==
  CASE family = "Montserrat" -> "Montserrat"
    [] family = "Roboto" -> "Roboto"
    [] family = "RobotoMono" -> "RobotoMono"
    [] family = "Lora" -> "LiberationSerif"

\* os.path.join(font_dir, [sub,] f'{base}-{weight_name}.ttf')
FontPath(font_dir, sub, base, weight_name) == <<font_dir, sub, base, weight_name>>

\* A returned font is [kind, v]: kind = "file" for a path, "name" for a
\* fontconfig name.
FontFileRef(path) == [kind |-> "file", v |-> path]

FontNameRef(name) == [kind |-> "name", v |-> <<name>>]

\* os.path.exists on a path built by get_font_file.
PathExists(path) == path \in fontFiles

FontconfigName_BaseName(font_family) ==
  IF font_family \in FontDirKeys THEN font_name_map(font_family) ELSE DEFAULT_FONT

\* FONT_MAP.get(font_family, DEFAULT_FONT)
FontconfigName(font_family) ==
  IF font_family \in FontMapKeys THEN FONT_MAP(font_family) ELSE DEFAULT_FONT

get_font_file(font_family, font_weight) ==
  LET closest_weight == ClosestWeight(font_weight)
      weight_name == weight_suffixes(closest_weight)
  IN IF font_family \notin FontDirKeys
     THEN FontNameRef(DEFAULT_FONT)
     ELSE
       LET font_dir == font_dir_map(font_family)
           font_base_name == font_name_map(font_family)
           font_file == FontPath(font_dir, "", font_base_name, weight_name)
           static_font_file == FontPath(font_dir, "static", font_base_name, weight_name)
           regular_file == FontPath(font_dir, "", font_base_name, "Regular")
           static_regular == FontPath(font_dir, "static", font_base_name, "Regular")
       IN IF PathExists(static_font_file) THEN FontFileRef(static_font_file)
          ELSE IF PathExists(font_file) THEN FontFileRef(font_file)
          ELSE IF PathExists(static_regular) THEN FontFileRef(static_regular)
          ELSE IF PathExists(regular_file) THEN FontFileRef(regular_file)
          ELSE FontNameRef(FontconfigName(font_family))

-----------------------------------------------------------------------------
(* build_drawtext_filter                                                   *)
(* An overlay is a record of its fields together with has, the set of the  *)
(* timing keys present in the dict; an absent key takes .get()'s default.  *)

Get(overlay, key, default) == IF key \in overlay.has THEN overlay[key] ELSE default

\* "{x}-(tw/2)" and the like: the pixel position less a share of the text size.
PosExpr(base, minus) == [base |-> base, minus |-> minus]

AnchorX(anchor, x) ==
  CASE anchor = "top-left" -> PosExpr(x, "0")
    [] anchor = "top-center" -> PosExpr(x, "tw/2")
    [] anchor = "center" -> PosExpr(x, "tw/2")
    [] anchor = "bottom-left" -> PosExpr(x, "0")
    [] anchor = "bottom-center" -> PosExpr(x, "tw/2")
    [] anchor = "bottom-right" -> PosExpr(x, "tw")
    [] OTHER -> PosExpr(x, "0")

AnchorY(anchor, y) ==
  CASE anchor = "top-left" -> PosExpr(y, "0")
    [] anchor = "top-center" -> PosExpr(y, "0")
    [] anchor = "center" -> PosExpr(y, "th/2")
    [] anchor = "bottom-left" -> PosExpr(y, "th")
    [] anchor = "bottom-center" -> PosExpr(y, "th")
    [] anchor = "bottom-right" -> PosExpr(y, "th")
    [] OTHER -> PosExpr(y, "0")

EnableExpr_EndIsDuration(start_time, duration) ==
  IF RLt(R(0), duration)
  THEN [f |-> "between", a |-> start_time, b |-> duration]
  ELSE [f |-> "gte", a |-> start_time, b |-> start_time]

\* "between(t,{start_time},{end_time})" or "gte(t,{start_time})" (b unused).
EnableExpr(start_time, duration) ==
  IF RLt(R(0), duration)
  THEN [f |-> "between", a |-> start_time, b |-> RAdd(start_time, duration)]
  ELSE [f |-> "gte", a |-> start_time, b |-> start_time]

\* "if(lt(t,{start_time + fade_in_sec}),(t-{start_time})/{fade_in_sec},1)"
FadeInPart(start_time, fade_in_sec) ==
  [kind |-> "in", thr |-> RAdd(start_time, fade_in_sec), ref |-> start_time,
   len |-> fade_in_sec]

\* "if(gt(t,{fade_out_start}),({end_time}-t)/{fade_out_sec},1)"
FadeOutPart(start_time, duration, fade_out_sec) ==
  LET end_time == RAdd(start_time, duration)
      fade_out_start == RSub(end_time, fade_out_sec)
  IN [kind |-> "out", thr |-> fade_out_start, ref |-> end_time, len |-> fade_out_sec]

HasFadeOut_IgnoresDuration(fade_out_sec, duration) == RLt(R(0), fade_out_sec)

\* "if fade_out_sec > 0 and duration > 0"
HasFadeOut(fade_out_sec, duration) == RLt(R(0), fade_out_sec) /\ RLt(R(0), duration)

\* The alpha expression: "1", one part, or "min(part1,part2)".
AlphaExpr(start_time, duration, fade_in_sec, fade_out_sec) ==
  IF RLt(R(0), fade_in_sec) \/ RLt(R(0), fade_out_sec)
  THEN
    LET alpha_parts ==
          (IF RLt(R(0), fade_in_sec)
           THEN <<FadeInPart(start_time, fade_in_sec)>> ELSE <<>>)
          \o (IF HasFadeOut(fade_out_sec, duration)
              THEN <<FadeOutPart(start_time, duration, fade_out_sec)>> ELSE <<>>)
    IN IF Len(alpha_parts) = 2 THEN [form |-> "min", parts |-> alpha_parts]
       ELSE IF Len(alpha_parts) = 1 THEN [form |-> "part", parts |-> alpha_parts]
       ELSE [form |-> "1", parts |-> <<>>]
  ELSE [form |-> "1", parts |-> <<>>]

Part(key, val) == [key |-> key, val |-> val]

build_drawtext_filter(overlay, input_label, output_label, width, height) ==
  LET text == escape_drawtext(overlay.text)
      x == overlay.x
      y == overlay.y
      anchor == overlay.anchor
      font_family == overlay.fontFamily
      font_size == overlay.fontSize
      font_weight == overlay.fontWeight
      color == overlay.color
      bg_color == overlay.backgroundColor
      bg_opacity == overlay.backgroundOpacity
      text_shadow == overlay.textShadow
      start_time == Get(overlay, "startTime", R(0))
      duration == Get(overlay, "duration", R(-1))
      fade_in_ms == Get(overlay, "fadeInMs", R(0))
      fade_out_ms == Get(overlay, "fadeOutMs", R(0))
      font_file == get_font_file(font_family, font_weight)
      fontcolor == hex_to_ffmpeg_color(color, R(1))
      x_expr == AnchorX(anchor, x)
      y_expr == AnchorY(anchor, y)
      enable_expr == EnableExpr(start_time, duration)
      fade_in_sec == RDiv(fade_in_ms, R(1000))
      fade_out_sec == RDiv(fade_out_ms, R(1000))
      alpha_expr == AlphaExpr(start_time, duration, fade_in_sec, fade_out_sec)
      filter_parts ==
        << (IF font_file.kind = "file" /\ PathExists(font_file.v)
            THEN Part("fontfile", font_file) ELSE Part("font", font_file)),
           Part("text", text),
           Part("fontsize", font_size),
           Part("fontcolor", fontcolor),
           Part("x", x_expr),
           Part("y", y_expr),
           Part("enable", enable_expr) >>
        \o (IF alpha_expr.form # "1" THEN <<Part("alpha", alpha_expr)>> ELSE <<>>)
        \o (IF Truthy(bg_color)
            THEN <<Part("box", 1),
                   Part("boxcolor", hex_to_ffmpeg_color(bg_color, bg_opacity)),
                   Part("boxborderw", 10)>>
            ELSE <<>>)
        \o (IF text_shadow
            THEN <<Part("shadowcolor", "0x00000080"), Part("shadowx", 2),
                   Part("shadowy", 2)>>
            ELSE <<>>)
  IN [ins |-> <<input_label>>,
      chain |-> <<"drawtext">>,
      p |-> filter_parts,
      out |-> output_label]

\* The positions of the drawtext option key in a stage's option list.
PartsOf(st, key) == {i \in 1..Len(st.p) : st.p[i].key = key}

\* The engine's value of an enable expression at time t (seconds):
\* between(t,a,b) is a <= t <= b, gte(t,a) is t >= a.
EvalEnable(e, t) ==
  IF e.f = "between" THEN RLe(e.a, t) /\ RLe(t, e.b) ELSE RLe(e.a, t)

\* The engine's value of one fade part at time t.
EvalFadePart(q, t) ==
  IF q.kind = "in"
  THEN (IF RLt(t, q.thr) THEN RDiv(RSub(t, q.ref), q.len) ELSE R(1))
  ELSE (IF RLt(q.thr, t) THEN RDiv(RSub(q.ref, t), q.len) ELSE R(1))

\* The engine's value of an alpha expression at time t.
EvalAlpha(e, t) ==
  IF e.form = "min" THEN RMin(EvalFadePart(e.parts[1], t), EvalFadePart(e.parts[2], t))
  ELSE IF e.form = "part" THEN EvalFadePart(e.parts[1], t)
  ELSE R(1)

-----------------------------------------------------------------------------
(* Inputs of the text overlay compositor                                   *)

AnchorChoices ==
  {"top-left", "top-center", "center", "bottom-left", "bottom-center",
   "bottom-right", "middle"}

\* Background colour and shadow of an overlay.
StyleChoices ==
  {[backgroundColor |-> NoColor, textShadow |-> FALSE],
   [backgroundColor |-> Color(1, "000000"), textShadow |-> FALSE],
   [backgroundColor |-> NoColor, textShadow |-> TRUE]}

FontChoices ==
  {[fontFamily |-> "Montserrat", fontWeight |-> 400],
   [fontFamily |-> "Comic Sans", fontWeight |-> 650]}

TextChoices == {<<"H", "i">>, <<"5", ":", "0", "0", "%">>}

\* The timing fields of an overlay; an absent key holds its default.
TimingChoices ==
  {[startTime |-> st, duration |-> du, fadeInMs |-> fi, fadeOutMs |-> fo,
    has |-> {"startTime", "duration", "fadeInMs", "fadeOutMs"}] :
     st \in {R(0), R(2), Frac(1, 2)}, du \in {R(-1), R(0), R(3), Frac(1, 2)},
     fi \in {R(0), R(500), R(250)}, fo \in {R(0), R(500)}}
  \cup
  {[startTime |-> st, duration |-> R(-1), fadeInMs |-> fi, fadeOutMs |-> fo,
    has |-> {"startTime", "fadeInMs", "fadeOutMs"}] :
     st \in {R(0), R(2), Frac(1, 2)}, fi \in {R(0), R(500), R(250)},
     fo \in {R(0), R(500)}}
  \cup
  {[startTime |-> R(0), duration |-> R(-1), fadeInMs |-> R(0), fadeOutMs |-> R(0),
    has |-> {}]}

Overlay(text, anchor, font, style, timing) ==
  [text |-> text, x |-> 100, y |-> 50, anchor |-> anchor,
   fontFamily |-> font.fontFamily, fontSize |-> 48, fontWeight |-> font.fontWeight,
   color |-> Color(1, "FFFFFF"),
   backgroundColor |-> style.backgroundColor, backgroundOpacity |-> Frac(7, 10),
   textShadow |-> style.textShadow,
   startTime |-> timing.startTime, duration |-> timing.duration,
   fadeInMs |-> timing.fadeInMs, fadeOutMs |-> timing.fadeOutMs,
   has |-> timing.has]

OverlayChoices ==
  {Overlay(tx, an, fo, sy, tm) :
     tx \in TextChoices, an \in AnchorChoices, fo \in FontChoices,
     sy \in StyleChoices, tm \in TimingChoices}

\* The font files installed on the machine.
FontDiskChoices ==
  {{},
   {FontPath("/usr/share/fonts/google/montserrat", "static", "Montserrat", "Regular")}}

InitDrawtext ==
  /\ pc = "call"
  /\ fn = "build_drawtext_filter"
  /\ fontFiles \in FontDiskChoices
  /\ \E o \in OverlayChoices, res \in {"1080p"} :
       args = [overlay |-> o, input_label |-> Lbl("outv", -1),
               output_label |-> Lbl("finalv", -1),
               width |-> RESOLUTIONS(res).width, height |-> RESOLUTIONS(res).height]
  /\ ret = <<>>
  /\ history = <<>>

CallDrawtext ==
  /\ pc = "call"
  /\ fn = "build_drawtext_filter"
  /\ ret' = build_drawtext_filter(args.overlay, args.input_label, args.output_label,
                                  args.width, args.height)
  /\ pc' = "done"
  /\ UNCHANGED <<fn, args, fontFiles, history>>

NextDrawtext == CallDrawtext

SpecDrawtext == InitDrawtext /\ [][NextDrawtext]_vars

-----------------------------------------------------------------------------
(* Claims about build_drawtext_filter (checked under SpecDrawtext)         *)

DrawtextDone == pc = "done" /\ fn = "build_drawtext_filter"

Eps == Frac(1, 1000)

\* The times at which the emitted expressions are evaluated: a quarter-second
\* grid, and every boundary of the overlay with the instants 1 ms around it.
ProbeTimes(o) ==
  LET start == Get(o, "startTime", R(0))
      dur == Get(o, "duration", R(-1))
      fi == RDiv(Get(o, "fadeInMs", R(0)), R(1000))
      fo == RDiv(Get(o, "fadeOutMs", R(0)), R(1000))
      edges == {start, RAdd(start, dur), RAdd(start, fi), RSub(RAdd(start, dur), fo)}
  IN {Frac(k, 4) : k \in 0..(4 * MaxTime)}
     \cup edges
     \cup {RAdd(b, Eps) : b \in edges}
     \cup {RSub(b, Eps) : b \in edges}

\* The value of the option key of the returned stage.
OptionOf(st, key) == st.p[CHOOSE i \in PartsOf(st, key) : TRUE].val

\* C9: the enable predicate of the returned drawtext stage is true exactly for
\* t in [startTime, startTime+duration] when duration > 0 and exactly for
\* t >= startTime when duration <= 0 (also when the key is absent, default -1);
\* startTime=2, duration=3 is visible on [2,5], not at 1.999 and not at 5.001.
C9_EnableWindow ==
  DrawtextDone =>
    LET o == args.overlay
        start == Get(o, "startTime", R(0))
        dur == Get(o, "duration", R(-1))
    IN /\ Cardinality(PartsOf(ret, "enable")) = 1
       /\ \A t \in ProbeTimes(o) :
            EvalEnable(OptionOf(ret, "enable"), t)
              <=> (IF RLt(R(0), dur)
                   THEN RLe(start, t) /\ RLe(t, RAdd(start, dur))
                   ELSE RLe(start, t))
       /\ (REq(start, R(2)) /\ REq(dur, R(3))) =>
            /\ \A k \in 8..20 : EvalEnable(OptionOf(ret, "enable"), Frac(k, 4))
            /\ ~EvalEnable(OptionOf(ret, "enable"), Frac(1999, 1000))
            /\ ~EvalEnable(OptionOf(ret, "enable"), Frac(5001, 1000))

\* C9 witness: an overlay with startTime=2, duration=3 was compiled; it is
\* visible at t=5 and invisible at t=5.001.
C9_Witness ==
  /\ DrawtextDone
  /\ "duration" \in args.overlay.has
  /\ REq(args.overlay.startTime, R(2))
  /\ REq(args.overlay.duration, R(3))
  /\ EvalEnable(OptionOf(ret, "enable"), R(5))
  /\ ~EvalEnable(OptionOf(ret, "enable"), Frac(5001, 1000))

\* The fade-in of the claim: 0 at start, linear up to 1 at start+fi, 1 after.
FadeInRef(start, fi, t) ==
  IF RLe(RAdd(start, fi), t) THEN R(1) ELSE RDiv(RSub(t, start), fi)

\* The fade-out of the claim: 1 up to end-fo, linear down to 0 at end.
FadeOutRef(end, fo, t) ==
  IF RLe(t, RSub(end, fo)) THEN R(1) ELSE RDiv(RSub(end, t), fo)

\* C10: the alpha option is present exactly when a fade is effective
\* (fadeInMs > 0, or fadeOutMs > 0 with duration > 0), at most once, and is
\* omitted otherwise; while the overlay is visible its value is the fade-in
\* ramp (0 at startTime, 1 from startTime+fadeInSec on), the fade-out ramp
\* (1 until end-fadeOutSec, 0 at end), or the min of both when both exist.
C10_AlphaTerm ==
  DrawtextDone =>
    LET o == args.overlay
        start == Get(o, "startTime", R(0))
        dur == Get(o, "duration", R(-1))
        fi == RDiv(Get(o, "fadeInMs", R(0)), R(1000))
        fo == RDiv(Get(o, "fadeOutMs", R(0)), R(1000))
        end == RAdd(start, dur)
        effIn == RLt(R(0), fi)
        effOut == RLt(R(0), fo) /\ RLt(R(0), dur)
        present == PartsOf(ret, "alpha") # {}
        alpha == OptionOf(ret, "alpha")
    IN /\ present <=> (effIn \/ effOut)
       /\ Cardinality(PartsOf(ret, "alpha")) <= 1
       /\ present =>
            /\ alpha.form = (IF effIn /\ effOut THEN "min" ELSE "part")
            /\ \A t \in ProbeTimes(o) :
                 EvalEnable(OptionOf(ret, "enable"), t) =>
                   REq(EvalAlpha(alpha, t),
                       RMin(IF effIn THEN FadeInRef(start, fi, t) ELSE R(1),
                            IF effOut THEN FadeOutRef(end, fo, t) ELSE R(1)))
            /\ effIn /\ ~effOut =>
                 /\ REq(EvalAlpha(alpha, start), R(0))
                 /\ REq(EvalAlpha(alpha, RAdd(start, fi)), R(1))
                 /\ REq(EvalAlpha(alpha, RAdd(start, RDiv(fi, R(2)))), Frac(1, 2))
            /\ effOut /\ ~effIn =>
                 /\ REq(EvalAlpha(alpha, RSub(end, fo)), R(1))
                 /\ REq(EvalAlpha(alpha, end), R(0))

\* C10 witness: an overlay with startTime=2, duration=3, both fades 500 ms was
\* compiled: the alpha option is a min() whose value is 1/2 at t=2.25 and at
\* t=4.75.
C10_Witness ==
  /\ DrawtextDone
  /\ args.overlay.has = {"startTime", "duration", "fadeInMs", "fadeOutMs"}
  /\ REq(args.overlay.startTime, R(2))
  /\ REq(args.overlay.duration, R(3))
  /\ REq(args.overlay.fadeInMs, R(500))
  /\ REq(args.overlay.fadeOutMs, R(500))
  /\ PartsOf(ret, "alpha") # {}
  /\ OptionOf(ret, "alpha").form = "min"
  /\ REq(EvalAlpha(OptionOf(ret, "alpha"), Frac(9, 4)), Frac(1, 2))
  /\ REq(EvalAlpha(OptionOf(ret, "alpha"), Frac(19, 4)), Frac(1, 2))

-----------------------------------------------------------------------------
(* Command tokens and stages                                               *)

Lit(s) == [k |-> "lit", v |-> s]

\* os.path.join(temp_dir, 'assets', local_file)
AssetPath(temp_dir, local_file) == [k |-> "path", v |-> <<temp_dir, "assets", local_file>>]

OutputArg(output_path) == [k |-> "path", v |-> <<output_path>>]

\* The -filter_complex value: the stages of filter_parts joined by ';'.
Graph(filter_parts) == [k |-> "graph", v |-> filter_parts]

LabelArg(label) == [k |-> "label", v |-> label]

\* str(number)
NumArg(r) == [k |-> "num", v |-> r]

Stage(ins, chain, p, out) == [ins |-> ins, chain |-> chain, p |-> p, out |-> out]

\* audio_output = None
None == <<"", -1>>

RECURSIVE Flatten(_)
\* The concatenation of a sequence of sequences (repeated list.extend).
Flatten(ss) == IF ss = <<>> THEN <<>> ELSE Head(ss) \o Flatten(Tail(ss))

RECURSIVE SumDurations(_, _)
\* sum(seg.get('duration', 5) for seg in segments[k..])
SumDurations(segments, k) ==
  IF k > Len(segments) THEN R(0)
  ELSE RAdd(Get(segments[k], "duration", R(5)), SumDurations(segments, k + 1))

-----------------------------------------------------------------------------
(* build_text_overlay_filters                                              *)

\* f"[text{i}]"
TextLabel(i) == Lbl("text", i)

TextInputLabel_NotChained(i, input_label, n, output_label) ==
  IF i = 0 THEN input_label ELSE TextLabel(i)

TextNextLabel_AlwaysOutput(i, n, output_label) == output_label

\* next_label of iteration i (0-based) of n: output_label on the last one.
TextNextLabel(i, n, output_label) ==
  IF i = n - 1 THEN output_label ELSE TextLabel(i)

\* current_label at iteration i: input_label first, then the previous next_label.
TextInputLabel(i, input_label, n, output_label) ==
  IF i = 0 THEN input_label ELSE TextNextLabel(i - 1, n, output_label)

build_text_overlay_filters(text_overlays, input_label, output_label, width, height) ==
  [j \in 1..Len(text_overlays) |->
     build_drawtext_filter(
       text_overlays[j],
       TextInputLabel(j - 1, input_label, Len(text_overlays), output_label),
       TextNextLabel(j - 1, Len(text_overlays), output_label),
       width, height)]

-----------------------------------------------------------------------------
(* Parts shared by the two command builders                                *)

VideoLabel_NoIndex(i) == Lbl("v", 0)

VideoLabel_Counter(i) == Lbl("v", i + Len(history))

\* f"[v{i}]"
VideoLabel(i) == Lbl("v", i)

VideoConcatNeeded_Always(video_concat_inputs) == Len(video_concat_inputs) >= 1

\* "if len(video_concat_inputs) > 1"
VideoConcatNeeded(video_concat_inputs) == Len(video_concat_inputs) > 1

\* f"{''.join(video_concat_inputs)}concat=n={n}:v=1:a=0[outv]"
VideoConcatStage(video_concat_inputs, n) ==
  Stage(video_concat_inputs, <<"concat">>, [n |-> n, v |-> 1, a |-> 0], Lbl("outv", -1))

\* f"{''.join(inputs)}amix=inputs={n}:duration=longest:normalize=0[outa]"
AmixStage(inputs, n) ==
  Stage(inputs, <<"amix">>, [inputs |-> n, duration |-> "longest", normalize |-> 0],
        Lbl("outa", -1))

\* f"[{input_idx}:a]adelay={delay_ms}|{delay_ms},volume={volume}[label]"
ClipStage(input_idx, clip, label) ==
  LET delay_ms == RTrunc(RMul(Get(clip, "startTime", R(0)), R(1000)))
      volume == Get(clip, "volume", R(1))
  IN Stage(<<RawA(input_idx)>>, <<"adelay", "volume">>,
           [adelay |-> <<delay_ms, delay_ms>>, volume |-> volume], label)

AudioCodecArgs_Always(audio_output) == <<Lit("-c:a"), Lit("aac"), Lit("-b:a"), Lit("192k")>>

\* "if audio_output: cmd.extend(['-c:a', 'aac', '-b:a', '192k'])"
AudioCodecArgs(audio_output) ==
  IF audio_output # None
  THEN <<Lit("-c:a"), Lit("aac"), Lit("-b:a"), Lit("192k")>>
  ELSE <<>>

\* The tail both builders share: filter graph, maps, codec settings.
OutputArgs(filter_parts, video_output, audio_output) ==
  (IF filter_parts # <<>> THEN <<Lit("-filter_complex"), Graph(filter_parts)>> ELSE <<>>)
  \o <<Lit("-map"), LabelArg(video_output)>>
  \o (IF audio_output # None THEN <<Lit("-map"), LabelArg(audio_output)>> ELSE <<>>)
  \o <<Lit("-c:v"), Lit("libx264"), Lit("-preset"), Lit("medium"),
       Lit("-crf"), Lit("23"), Lit("-pix_fmt"), Lit("yuv420p")>>
  \o AudioCodecArgs(audio_output)

-----------------------------------------------------------------------------
(* build_ffmpeg_command                                                    *)

\* The Ken Burns stage of segment i (0-based).
ImageSegmentStage(i, segment, fps, width, height) ==
  LET duration == Get(segment, "duration", R(5))
      duration_frames == RTrunc(RMul(duration, R(fps)))
      kb == segment.kenBurns
  IN build_ken_burns_filter(i, duration_frames, fps,
       Get(kb, "zoomStart", R(1)), Get(kb, "zoomEnd", Frac(105, 100)),
       Get(kb, "panX", R(0)), Get(kb, "panY", R(0)), width, height)

build_ffmpeg_command(segments, audio_clips, output_path, resolution, fps, temp_dir) ==
  LET res == ResolutionGet(resolution)
      width == res.width
      height == res.height
      image_inputs ==
        Flatten([j \in 1..Len(segments) |->
                   <<Lit("-loop"), Lit("1"), Lit("-i"),
                     AssetPath(temp_dir, segments[j].localFile)>>])
      audio_inputs_start == Len(segments)
      audio_inputs ==
        Flatten([j \in 1..Len(audio_clips) |->
                   <<Lit("-i"), AssetPath(temp_dir, audio_clips[j].localFile)>>])
      video_parts ==
        [j \in 1..Len(segments) |->
           ImageSegmentStage(j - 1, segments[j], fps, width, height)]
      video_concat_inputs == [j \in 1..Len(segments) |-> VideoLabel(j - 1)]
      concat_parts ==
        IF VideoConcatNeeded(video_concat_inputs)
        THEN <<VideoConcatStage(video_concat_inputs, Len(segments))>> ELSE <<>>
      video_output ==
        IF VideoConcatNeeded(video_concat_inputs) THEN Lbl("outv", -1) ELSE Lbl("v", 0)
      audio_parts ==
        [j \in 1..Len(audio_clips) |->
           ClipStage(audio_inputs_start + (j - 1), audio_clips[j], Lbl("a", j - 1))]
      audio_mix_inputs == [j \in 1..Len(audio_clips) |-> Lbl("a", j - 1)]
      mix_parts ==
        IF Len(audio_mix_inputs) > 1
        THEN <<AmixStage(audio_mix_inputs, Len(audio_clips))>> ELSE <<>>
      audio_output ==
        IF audio_clips # <<>>
        THEN (IF Len(audio_mix_inputs) > 1 THEN Lbl("outa", -1) ELSE Lbl("a", 0))
        ELSE None
      filter_parts == video_parts \o concat_parts \o audio_parts \o mix_parts
      total_duration == SumDurations(segments, 1)
  IN <<Lit("ffmpeg"), Lit("-y")>>
     \o image_inputs \o audio_inputs
     \o OutputArgs(filter_parts, video_output, audio_output)
     \o <<Lit("-t"), NumArg(total_duration)>>
     \o <<OutputArg(output_path)>>

-----------------------------------------------------------------------------
(* build_concat_ffmpeg_command                                             *)

\* A missing voiceoverLocalFile (None).
NoFile == <<"", -1>>

\* "audio_source == 'voiceover' and voiceover_file"
UsesVoiceoverFile(segment) ==
  /\ Get(segment, "audioSource", "original") = "voiceover"
  /\ Get(segment, "voiceoverLocalFile", NoFile) # NoFile

\* The keys of voiceover_input_map: 0-based indices of the segments that add
\* a voiceover input.
VoiceoverSegments(video_segments) ==
  {i \in 0..(Len(video_segments) - 1) : UsesVoiceoverFile(video_segments[i + 1])}

voiceover_input_map_BySegment(video_segments, i) == Len(video_segments) + i

\* voiceover_input_map[i] = video_input_count + len(voiceover_input_map) at
\* the time segment i is reached.
voiceover_input_map(video_segments, i) ==
  Len(video_segments) + Cardinality({k \in VoiceoverSegments(video_segments) : k < i})

\* "aformat=sample_fmts=fltp:sample_rates=48000:channel_layouts=stereo"
AFormat == [sample_fmts |-> "fltp", sample_rates |-> 48000, channel_layouts |-> "stereo"]

\* The scale/pad/fps stage of segment i.
ScaleStage(i, width, height, fps) ==
  Stage(<<RawV(i)>>, <<"setpts", "scale", "pad", "fps", "setsar">>,
        [scale |-> <<width, height>>, pad |-> <<width, height>>, fps |-> fps, setsar |-> 1],
        VideoLabel(i))

VolumeChain_Always(seg_audio_volume) == <<"volume">>

\* The optional ",volume={v}" of a segment audio chain: "if v != 1.0".
VolumeChain(seg_audio_volume) ==
  IF ~REq(seg_audio_volume, R(1)) THEN <<"volume">> ELSE <<>>

\* The label of the audio stream segment i contributes.
SegmentAudioLabel(video_segments, i) ==
  LET segment == video_segments[i + 1]
      audio_source == Get(segment, "audioSource", "original")
  IN IF audio_source = "original" THEN Lbl("seg_audio", i)
     ELSE IF audio_source = "voiceover" /\ i \in VoiceoverSegments(video_segments)
     THEN Lbl("vo_audio", i)
     ELSE Lbl("seg_audio", i)

\* The audio stage of segment i: original, voiceover or muted.
SegmentAudioStage(video_segments, i, segment_audio_volume) ==
  LET segment == video_segments[i + 1]
      audio_source == Get(segment, "audioSource", "original")
      seg_audio_volume == Get(segment, "audioVolume", segment_audio_volume)
      duration == Get(segment, "duration", R(5))
  IN IF audio_source = "original"
     THEN Stage(<<RawA(i)>>, <<"asetpts", "aformat">> \o VolumeChain(seg_audio_volume),
                [aformat |-> AFormat, volume |-> seg_audio_volume],
                Lbl("seg_audio", i))
     ELSE IF audio_source = "voiceover" /\ i \in VoiceoverSegments(video_segments)
     THEN Stage(<<RawA(voiceover_input_map(video_segments, i))>>,
                <<"atrim", "asetpts", "aformat">> \o VolumeChain(seg_audio_volume),
                [atrim |-> [start |-> Get(segment, "voiceoverStartTime", R(0)),
                            duration |-> Get(segment, "voiceoverDuration", duration)],
                 aformat |-> AFormat, volume |-> seg_audio_volume],
                Lbl("vo_audio", i))
     ELSE Stage(<<RawA(i)>>, <<"asetpts", "aformat", "volume">>,
                [aformat |-> AFormat, volume |-> R(0)],
                Lbl("seg_audio", i))

\* f"{refs}concat=n={n}:v=0:a=1[src_audio]"
AudioConcatStage(refs, n) ==
  Stage(refs, <<"concat">>, [n |-> n, v |-> 0, a |-> 1], Lbl("src_audio", -1))

MixCount_ClipsOnly(all_audio_inputs, audio_clips) == Len(audio_clips)

\* "amix=inputs={len(all_audio_inputs)}"
MixCount(all_audio_inputs, audio_clips) == Len(all_audio_inputs)

build_concat_ffmpeg_command(video_segments, audio_clips, output_path, resolution, fps, temp_dir, include_segment_audio, segment_audio_volume, text_overlays) ==
  LET res == ResolutionGet(resolution)
      width == res.width
      height == res.height
      n == Len(video_segments)
      video_inputs ==
        Flatten([j \in 1..n |->
                   <<Lit("-i"), AssetPath(temp_dir, video_segments[j].localFile)>>])
      voiceover_inputs ==
        Flatten([j \in 1..n |->
                   IF UsesVoiceoverFile(video_segments[j])
                   THEN <<Lit("-i"),
                          AssetPath(temp_dir, video_segments[j].voiceoverLocalFile)>>
                   ELSE <<>>])
      audio_inputs_start == n + Cardinality(VoiceoverSegments(video_segments))
      audio_inputs ==
        Flatten([j \in 1..Len(audio_clips) |->
                   <<Lit("-i"), AssetPath(temp_dir, audio_clips[j].localFile)>>])
      segment_parts ==
        Flatten([j \in 1..n |->
                   <<ScaleStage(j - 1, width, height, fps),
                     SegmentAudioStage(video_segments, j - 1, segment_audio_volume)>>])
      video_concat_inputs == [j \in 1..n |-> VideoLabel(j - 1)]
      segment_audio_streams == [j \in 1..n |-> SegmentAudioLabel(video_segments, j - 1)]
      concat_parts ==
        IF VideoConcatNeeded(video_concat_inputs)
        THEN <<VideoConcatStage(video_concat_inputs, n)>> ELSE <<>>
      concat_output ==
        IF VideoConcatNeeded(video_concat_inputs) THEN Lbl("outv", -1) ELSE Lbl("v", 0)
      text_filters ==
        build_text_overlay_filters(text_overlays, concat_output, Lbl("finalv", -1),
                                   width, height)
      video_output == IF text_filters # <<>> THEN Lbl("finalv", -1) ELSE concat_output
      src_concat_parts ==
        IF Len(segment_audio_streams) > 1
        THEN <<AudioConcatStage(segment_audio_streams, Len(segment_audio_streams))>>
        ELSE <<>>
      src_audio_output ==
        IF Len(segment_audio_streams) > 1 THEN Lbl("src_audio", -1)
        ELSE IF Len(segment_audio_streams) = 1 THEN segment_audio_streams[1]
        ELSE None
      overlay_parts ==
        [j \in 1..Len(audio_clips) |->
           ClipStage(audio_inputs_start + (j - 1), audio_clips[j], Lbl("overlay_a", j - 1))]
      all_audio_inputs ==
        (IF Len(segment_audio_streams) > 0 THEN <<src_audio_output>> ELSE <<>>)
        \o [j \in 1..Len(audio_clips) |-> Lbl("overlay_a", j - 1)]
      mix_parts ==
        IF Len(all_audio_inputs) > 1
        THEN <<AmixStage(all_audio_inputs, MixCount(all_audio_inputs, audio_clips))>>
        ELSE <<>>
      audio_output ==
        IF Len(all_audio_inputs) > 1 THEN Lbl("outa", -1)
        ELSE IF Len(all_audio_inputs) = 1 THEN all_audio_inputs[1]
        ELSE None
      filter_parts ==
        segment_parts \o concat_parts \o text_filters \o src_concat_parts
        \o overlay_parts \o mix_parts
  IN <<Lit("ffmpeg"), Lit("-y")>>
     \o video_inputs \o voiceover_inputs \o audio_inputs
     \o OutputArgs(filter_parts, video_output, audio_output)
     \o <<OutputArg(output_path)>>

-----------------------------------------------------------------------------
(* Inputs of the command builders                                          *)

KenBurnsDict(has, zs, ze, px, py) ==
  [has |-> has, zoomStart |-> zs, zoomEnd |-> ze, panX |-> px, panY |-> py]

ImageSegment(has, duration, kb, i) ==
  [localFile |-> <<"image", i>>, has |-> has, duration |-> duration, kenBurns |-> kb]

\* The kinds of image segment: explicit settings, every key absent, a quarter
\* second with a full pan, and a zero duration.
ImageKinds == {"explicit", "defaults", "short", "zero"}

ImageSegmentOf(kind, i) ==
  CASE kind = "explicit" ->
         ImageSegment({"duration"}, R(5),
           KenBurnsDict({"zoomStart", "zoomEnd", "panX", "panY"},
                        R(1), Frac(11, 10), R(0), R(0)), i)
    [] kind = "defaults" ->
         ImageSegment({}, R(5), KenBurnsDict({}, R(1), Frac(105, 100), R(0), R(0)), i)
    [] kind = "short" ->
         ImageSegment({"duration"}, Frac(1, 4),
           KenBurnsDict({"zoomStart", "panX", "panY"},
                        Frac(5, 4), Frac(105, 100), R(-1), Frac(1, 2)), i)
    [] kind = "zero" ->
         ImageSegment({"duration"}, R(0), KenBurnsDict({}, R(1), Frac(105, 100), R(0), R(0)), i)

VideoSegment(has, audioSource, voFile, volume, voStart, voDuration, i) ==
  [localFile |-> <<"video", i>>, has |-> has, audioSource |-> audioSource,
   voiceoverLocalFile |-> voFile, audioVolume |-> volume, duration |-> R(5),
   voiceoverStartTime |-> voStart, voiceoverDuration |-> voDuration]

\* The kinds of video segment: original audio (default or own volume),
\* voiceover with its file (trimmed, or with own volume and duration),
\* voiceover without a file, muted.
VideoKinds == {"original", "originalQuiet", "voiceover", "voiceoverQuiet", "voiceoverNoFile", "muted"}

VideoSegmentOf(kind, i) ==
  CASE kind = "original" ->
         VideoSegment({}, "original", NoFile, R(1), R(0), R(5), i)
    [] kind = "originalQuiet" ->
         VideoSegment({"audioSource", "audioVolume", "duration"}, "original", NoFile,
                      Frac(1, 2), R(0), R(5), i)
    [] kind = "voiceover" ->
         VideoSegment({"audioSource", "voiceoverLocalFile", "voiceoverStartTime"},
                      "voiceover", <<"voiceover", i>>, R(1), R(2), R(5), i)
    [] kind = "voiceoverQuiet" ->
         VideoSegment({"audioSource", "voiceoverLocalFile", "audioVolume",
                       "voiceoverDuration"},
                      "voiceover", <<"voiceover", i>>, Frac(1, 2), R(0), R(3), i)
    [] kind = "voiceoverNoFile" ->
         VideoSegment({"audioSource"}, "voiceover", NoFile, R(1), R(0), R(5), i)
    [] kind = "muted" ->
         VideoSegment({"audioSource"}, "muted", NoFile, R(1), R(0), R(5), i)

\* The i-th audio clip of a job (0-based): a delayed, quieter clip and a clip
\* with every key absent alternate.
AudioClipAt(i) ==
  IF i % 2 = 0
  THEN [localFile |-> <<"audio", i>>, has |-> {"startTime", "duration", "volume"},
        startTime |-> Frac(3, 2), duration |-> R(4), volume |-> Frac(1, 2)]
  ELSE [localFile |-> <<"audio", i>>, has |-> {}, startTime |-> R(0),
        duration |-> R(10), volume |-> R(1)]

ClipLists(max) == {[j \in 1..k |-> AudioClipAt(j - 1)] : k \in 0..max}

\* The sequences of at most max elements of kinds, element j built by Of(kind, j-1).
ListsOf(kinds, max, Of(_, _)) ==
  UNION {{[j \in 1..n |-> Of(ks[j], j - 1)] : ks \in [1..n -> kinds]} : n \in 0..max}

\* The i-th overlay of a job (0-based): a title and a caption alternate.
OverlayAt(i) ==
  IF i % 2 = 0
  THEN Overlay(<<"H", "i">>, "center",
               [fontFamily |-> "Montserrat", fontWeight |-> 400],
               [backgroundColor |-> NoColor, textShadow |-> TRUE],
               [startTime |-> R(0), duration |-> R(-1), fadeInMs |-> R(500),
                fadeOutMs |-> R(0), has |-> {"fadeInMs"}])
  ELSE Overlay(<<"5", ":", "0", "0", "%">>, "bottom-center",
               [fontFamily |-> "Comic Sans", fontWeight |-> 650],
               [backgroundColor |-> Color(1, "000000"), textShadow |-> FALSE],
               [startTime |-> R(2), duration |-> R(3), fadeInMs |-> R(250),
                fadeOutMs |-> R(500),
                has |-> {"startTime", "duration", "fadeInMs", "fadeOutMs"}])

OverlayLists(max) == {[j \in 1..k |-> OverlayAt(j - 1)] : k \in 0..max}

ImageJobs ==
  {[segments |-> ss, audio_clips |-> cs, output_path |-> "/tmp/output/job.mp4",
    resolution |-> r, fps |-> f, temp_dir |-> "/tmp"] :
     ss \in ListsOf(ImageKinds, MaxSegs, ImageSegmentOf),
     cs \in ClipLists(MaxClips),
     r \in {"1080p", "8K"}, f \in FpsChoices}

ConcatJobs ==
  {[video_segments |-> ss, audio_clips |-> cs, output_path |-> "/tmp/output/job.mp4",
    resolution |-> "720p", fps |-> 24, temp_dir |-> "/tmp",
    include_segment_audio |-> inc, segment_audio_volume |-> vol, text_overlays |-> os] :
     ss \in ListsOf(VideoKinds, MaxSegs, VideoSegmentOf),
     cs \in ClipLists(MaxClips),
     inc \in {TRUE}, vol \in {R(1), Frac(4, 5)},
     os \in OverlayLists(MaxOverlays)}

-----------------------------------------------------------------------------
(* The compiler specification: one compilation of one job                  *)

Init ==
  /\ pc = "call"
  /\ \/ fn = "build_ffmpeg_command" /\ args \in ImageJobs
     \/ fn = "build_concat_ffmpeg_command" /\ args \in ConcatJobs
  /\ ret = <<>>
  /\ fontFiles = {FontPath("/usr/share/fonts/google/montserrat", "static", "Montserrat", "Regular")}
  /\ history = <<>>

Call(cmd) ==
  /\ ret' = cmd
  /\ history' = Append(history, [fn |-> fn, args |-> args, ret |-> cmd])
  /\ pc' = "done"
  /\ UNCHANGED <<fn, args, fontFiles>>

CallBuildFfmpegCommand ==
  /\ pc = "call"
  /\ fn = "build_ffmpeg_command"
  /\ Call(build_ffmpeg_command(args.segments, args.audio_clips, args.output_path,
                               args.resolution, args.fps, args.temp_dir))

CallBuildConcatFfmpegCommand_FlagMutes ==
  /\ pc = "call"
  /\ fn = "build_concat_ffmpeg_command"
  /\ Call(build_concat_ffmpeg_command(args.video_segments, args.audio_clips,
            args.output_path, args.resolution, args.fps, args.temp_dir,
            args.include_segment_audio,
            IF args.include_segment_audio THEN args.segment_audio_volume ELSE R(0),
            args.text_overlays))

CallBuildConcatFfmpegCommand ==
  /\ pc = "call"
  /\ fn = "build_concat_ffmpeg_command"
  /\ Call(build_concat_ffmpeg_command(args.video_segments, args.audio_clips,
            args.output_path, args.resolution, args.fps, args.temp_dir,
            args.include_segment_audio, args.segment_audio_volume, args.text_overlays))

Next == CallBuildFfmpegCommand \/ CallBuildConcatFfmpegCommand

Spec == Init /\ [][Next]_vars

-----------------------------------------------------------------------------
(* Reading a compiled command                                              *)

ImageDone == pc = "done" /\ fn = "build_ffmpeg_command"

ConcatDone == pc = "done" /\ fn = "build_concat_ffmpeg_command"

CompileDone == ImageDone \/ ConcatDone

\* The segments of the compiled job.
JobSegments == IF fn = "build_ffmpeg_command" THEN args.segments ELSE args.video_segments

\* The stages of the command's filter graph, in filter_parts order.
GraphOf(cmd) ==
  LET at == {i \in 1..Len(cmd) : cmd[i].k = "graph"}
  IN IF at = {} THEN <<>> ELSE cmd[CHOOSE i \in at : TRUE].v

\* The positions of the literal argument s in the command.
LitAt(cmd, s) == {i \in 1..Len(cmd) : cmd[i].k = "lit" /\ cmd[i].v = s}

\* The labels passed to -map, by position of the -map argument.
MapLabel(cmd, i) == cmd[i + 1].v

HasFilter(st, name) == \E c \in 1..Len(st.chain) : st.chain[c] = name

StagesWith(graph, name) == {j \in 1..Len(graph) : HasFilter(graph[j], name)}

\* The medium a label name stands for in the builders.
Media(l) ==
  IF l[1] \in {"v", "outv", "text", "finalv", "in:v"} THEN "video" ELSE "audio"

VideoMaps(cmd) == {i \in LitAt(cmd, "-map") : Media(MapLabel(cmd, i)) = "video"}

AudioMaps(cmd) == {i \in LitAt(cmd, "-map") : Media(MapLabel(cmd, i)) = "audio"}

-----------------------------------------------------------------------------
(* Claims about the command builders (checked under Spec)                  *)

\* C1: for a job with at least one segment, in both builders, every label a
\* stage consumes (raw input references [i:v]/[i:a] excepted) is the output
\* label of a stage strictly earlier in filter_parts, and every label passed
\* to -map is the output label of some stage of the graph.
C1_LabelsProducedEarlier ==
  (CompileDone /\ Len(JobSegments) >= 1) =>
    LET graph == GraphOf(ret)
    IN /\ \A j \in 1..Len(graph) : \A c \in 1..Len(graph[j].ins) :
            \/ IsRaw(graph[j].ins[c])
            \/ \E e \in 1..(j - 1) : graph[e].out = graph[j].ins[c]
       /\ \A i \in LitAt(ret, "-map") :
            /\ ret[i + 1].k = "label"
            /\ \E e \in 1..Len(graph) : graph[e].out = MapLabel(ret, i)

\* C1 witness: a concatenation job with two segments, two text overlays and an
\* audio clip was compiled: its graph chains concat, drawtext and amix stages.
C1_Witness ==
  /\ ConcatDone
  /\ Len(args.video_segments) = 2
  /\ Len(args.text_overlays) = 2
  /\ Len(args.audio_clips) = 1
  /\ StagesWith(GraphOf(ret), "drawtext") # {}
  /\ StagesWith(GraphOf(ret), "amix") # {}

\* C2: within one compilation no two stages produce the same output label,
\* and no stage produces a raw input reference.
C2_LabelsUnique ==
  CompileDone =>
    LET graph == GraphOf(ret)
    IN /\ \A j \in 1..Len(graph) : \A e \in 1..Len(graph) :
            graph[j].out = graph[e].out => j = e
       /\ \A j \in 1..Len(graph) : ~IsRaw(graph[j].out)

\* C2 witness: a concatenation job with two segments, one of them a voiceover,
\* the most overlays and an audio clip was compiled: labels of every family
\* ([v], [seg_audio_], [vo_audio_], [overlay_a], [text], [outv], [finalv],
\* [src_audio], [outa]) are in the graph.
C2_Witness ==
  /\ ConcatDone
  /\ Len(args.video_segments) = 2
  /\ Len(args.text_overlays) = MaxOverlays
  /\ Len(args.audio_clips) >= 1
  /\ \A nm \in {"v", "seg_audio", "vo_audio", "overlay_a", "text", "outv", "finalv",
                "src_audio", "outa"} :
       \E j \in 1..Len(GraphOf(ret)) : GraphOf(ret)[j].out[1] = nm

\* C3: every compiled command has exactly one -map of a video label and at
\* most one -map of an audio label, and -c:a and -b:a are present (once each)
\* exactly when an audio -map is present.
C3_OneVideoMapAudioCodecIffAudioMap ==
  CompileDone =>
    /\ \A i \in LitAt(ret, "-map") : i < Len(ret) /\ ret[i + 1].k = "label"
    /\ Cardinality(VideoMaps(ret)) = 1
    /\ Cardinality(AudioMaps(ret)) <= 1
    /\ Cardinality(LitAt(ret, "-c:a")) = Cardinality(AudioMaps(ret))
    /\ Cardinality(LitAt(ret, "-b:a")) = Cardinality(AudioMaps(ret))

\* C3 witness: an image job without audio clips was compiled: the command has
\* one -map and no audio codec settings.
C3_Witness ==
  /\ ImageDone
  /\ Len(args.segments) = 2
  /\ args.audio_clips = <<>>
  /\ Cardinality(LitAt(ret, "-map")) = 1
  /\ LitAt(ret, "-c:a") = {}
  /\ LitAt(ret, "-c:v") # {}

\* C4: for N >= 1 image segments and any audio clips, build_ffmpeg_command
\* emits exactly N Ken Burns stages, the i-th reading input i and labelled
\* [v{i}], in segment order; one video concat stage if N > 1 (taking
\* [v0]..[v{N-1}] in order, n=N, producing [outv]) and none if N = 1; and maps
\* one video label: [outv] if N > 1, [v0] if N = 1.
C4_MotionStagesAndConcat ==
  (ImageDone /\ Len(args.segments) >= 1) =>
    LET graph == GraphOf(ret)
        N == Len(args.segments)
        concats == StagesWith(graph, "concat")
    IN /\ StagesWith(graph, "zoompan") = 1..N
       /\ \A i \in 0..(N - 1) :
            /\ graph[i + 1].ins = <<RawV(i)>>
            /\ graph[i + 1].out = Lbl("v", i)
       /\ Cardinality(concats) = (IF N > 1 THEN 1 ELSE 0)
       /\ \A j \in concats :
            /\ graph[j].ins = [i \in 1..N |-> Lbl("v", i - 1)]
            /\ graph[j].p.n = N /\ graph[j].p.v = 1 /\ graph[j].p.a = 0
            /\ graph[j].out = Lbl("outv", -1)
       /\ Cardinality(VideoMaps(ret)) = 1
       /\ \A i \in VideoMaps(ret) :
            MapLabel(ret, i) = (IF N > 1 THEN Lbl("outv", -1) ELSE Lbl("v", 0))

\* C4 witness: an image job with one segment and two audio clips was
\* compiled: no concat stage, and [v0] is mapped.
C4_Witness ==
  /\ ImageDone
  /\ Len(args.segments) = 1
  /\ Len(args.audio_clips) = 2
  /\ StagesWith(GraphOf(ret), "concat") = {}
  /\ \E i \in VideoMaps(ret) : MapLabel(ret, i) = Lbl("v", 0)

\* The audio-bearing streams that reach the final audio step, in order: the
\* clips' [a{j}] in image mode; in concatenation mode the source audio (the
\* one segment's own stream, or [src_audio] for several) and the [overlay_a{j}].
FinalAudioStreams ==
  IF fn = "build_ffmpeg_command"
  THEN [j \in 1..Len(args.audio_clips) |-> Lbl("a", j - 1)]
  ELSE (IF Len(args.video_segments) = 0 THEN <<>>
        ELSE IF Len(args.video_segments) = 1
        THEN <<GraphOf(ret)[CHOOSE j \in 1..Len(GraphOf(ret)) :
                  GraphOf(ret)[j].out[1] \in {"seg_audio", "vo_audio"}].out>>
        ELSE <<Lbl("src_audio", -1)>>)
       \o [j \in 1..Len(args.audio_clips) |-> Lbl("overlay_a", j - 1)]

\* C5: with A audio-bearing streams reaching the final audio step: A = 0 gives
\* no audio -map and no amix; A = 1 maps that stream directly with no amix;
\* A >= 2 gives exactly one amix stage with inputs=A that consumes each of the
\* A labels exactly once, with duration=longest and normalize=0, and whose
\* output is the mapped audio.
C5_AudioMix ==
  CompileDone =>
    LET graph == GraphOf(ret)
        streams == FinalAudioStreams
        A == Len(streams)
        mixes == StagesWith(graph, "amix")
    IN /\ A = 0 => AudioMaps(ret) = {} /\ mixes = {}
       /\ A = 1 =>
            /\ mixes = {}
            /\ Cardinality(AudioMaps(ret)) = 1
            /\ \A i \in AudioMaps(ret) : MapLabel(ret, i) = streams[1]
       /\ A >= 2 =>
            /\ Cardinality(mixes) = 1
            /\ \A j \in mixes :
                 /\ graph[j].p.inputs = A
                 /\ Len(graph[j].ins) = A
                 /\ \A k \in 1..A :
                      Cardinality({c \in 1..A : graph[j].ins[c] = streams[k]}) = 1
                 /\ graph[j].p.duration = "longest"
                 /\ graph[j].p.normalize = 0
                 /\ Cardinality(AudioMaps(ret)) = 1
                 /\ \A i \in AudioMaps(ret) : MapLabel(ret, i) = graph[j].out

\* C5 witness: a concatenation job with two segments and one overlay clip was
\* compiled: one amix stage mixes [src_audio] and [overlay_a0].
C5_Witness ==
  /\ ConcatDone
  /\ Len(args.video_segments) = 2
  /\ Len(args.audio_clips) = 1
  /\ \E j \in StagesWith(GraphOf(ret), "amix") :
       GraphOf(ret)[j].ins = <<Lbl("src_audio", -1), Lbl("overlay_a", 0)>>

-----------------------------------------------------------------------------
(* Repeated compilation: one process compiles several jobs in turn         *)

ImageJob(kinds, clips) ==
  [segments |-> [j \in 1..Len(kinds) |-> ImageSegmentOf(kinds[j], j - 1)],
   audio_clips |-> [j \in 1..clips |-> AudioClipAt(j - 1)],
   output_path |-> "/tmp/output/job.mp4", resolution |-> "1080p", fps |-> 24,
   temp_dir |-> "/tmp"]

ConcatJob(kinds, clips, overlays) ==
  [video_segments |-> [j \in 1..Len(kinds) |-> VideoSegmentOf(kinds[j], j - 1)],
   audio_clips |-> [j \in 1..clips |-> AudioClipAt(j - 1)],
   output_path |-> "/tmp/output/job.mp4", resolution |-> "720p", fps |-> 24,
   temp_dir |-> "/tmp", include_segment_audio |-> TRUE,
   segment_audio_volume |-> R(1),
   text_overlays |-> [j \in 1..overlays |-> OverlayAt(j - 1)]]

\* The calls a process makes: a few jobs of each mode.
RepeatCalls ==
  {[fn |-> "build_ffmpeg_command", args |-> ImageJob(ks, cs)] :
     ks \in {<<"explicit">>, <<"explicit", "short">>}, cs \in {0, 1}}
  \cup
  {[fn |-> "build_concat_ffmpeg_command", args |-> ConcatJob(ks, 0, os)] :
     ks \in {<<"original">>, <<"voiceover", "muted">>}, os \in {0, 2}}

InitRepeat ==
  /\ pc = "call"
  /\ \E c \in RepeatCalls : fn = c.fn /\ args = c.args
  /\ ret = <<>>
  /\ fontFiles \in FontDiskChoices
  /\ history = <<>>

\* The caller starts another compilation after the last one returned.
NextCompilation ==
  /\ pc = "done"
  /\ Len(history) < MaxCalls
  /\ \E c \in RepeatCalls : fn' = c.fn /\ args' = c.args
  /\ ret' = <<>>
  /\ pc' = "call"
  /\ UNCHANGED <<fontFiles, history>>

NextRepeat == CallBuildFfmpegCommand \/ CallBuildConcatFfmpegCommand \/ NextCompilation

SpecRepeat == InitRepeat /\ [][NextRepeat]_vars

-----------------------------------------------------------------------------
(* Font resolution on its own: a family, a weight and the fonts on disk    *)

FamilyChoices == {"Montserrat", "Roboto", "RobotoMono", "Lora", "Comic Sans", ""}

WeightChoices == {100, 400, 449, 450, 650, 700, 1000}

FontDisks ==
  SUBSET {FontPath("/usr/share/fonts/google/montserrat", "static", "Montserrat", "Bold"),
          FontPath("/usr/share/fonts/google/montserrat", "", "Montserrat", "Bold"),
          FontPath("/usr/share/fonts/google/montserrat", "static", "Montserrat", "Regular"),
          FontPath("/usr/share/fonts/google/montserrat", "", "Montserrat", "Regular")}
  \cup {{FontPath("/usr/share/fonts/google/roboto", "", "Roboto", "Regular")},
        {FontPath("/usr/share/fonts/liberation2", "static", "LiberationSerif", "Regular")}}

InitFont ==
  /\ pc = "call"
  /\ fn = "get_font_file"
  /\ fontFiles \in FontDisks
  /\ \E f \in FamilyChoices, w \in WeightChoices :
       args = [font_family |-> f, font_weight |-> w]
  /\ ret = <<>>
  /\ history = <<>>

CallGetFontFile ==
  /\ pc = "call"
  /\ fn = "get_font_file"
  /\ ret' = get_font_file(args.font_family, args.font_weight)
  /\ pc' = "done"
  /\ UNCHANGED <<fn, args, fontFiles, history>>

NextFont == CallGetFontFile

SpecFont == InitFont /\ [][NextFont]_vars

FontDone == pc = "done" /\ fn = "get_font_file"

\* The four files get_font_file probes for a family it has a directory for:
\* the nearest named weight and Regular, each under static/ and directly.
ProbedFiles(family, weight) ==
  IF family \notin FontDirKeys THEN {}
  ELSE {FontPath(font_dir_map(family), sub, font_name_map(family), wn) :
          sub \in {"static", ""},
          wn \in {weight_suffixes(ClosestWeight(weight)), "Regular"}}

NoProbedFile == ProbedFiles(args.font_family, args.font_weight) \cap fontFiles = {}

-----------------------------------------------------------------------------
(* Claims about the audio of a concatenation job (checked under Spec)      *)

\* The file of the command's k-th input (0-based): the local file in the path
\* that follows the (k+1)-th "-i".
InputCount(cmd) == Cardinality(LitAt(cmd, "-i"))

InputFile(cmd, k) ==
  LET at == LitAt(cmd, "-i")
      pos == CHOOSE q \in at : Cardinality({r \in at : r < q}) = k
  IN cmd[pos + 1].v[3]

\* The stages of the graph that write segment i's audio label.
SegAudioStages(graph, i) ==
  {j \in 1..Len(graph) : graph[j].out \in {Lbl("seg_audio", i), Lbl("vo_audio", i)}}

SourceOf(segment) ==
  IF "audioSource" \in segment.has THEN segment.audioSource ELSE "original"

VolumeOf(segment) ==
  IF "audioVolume" \in segment.has THEN segment.audioVolume ELSE args.segment_audio_volume

HasVoiceoverFile(segment) ==
  "voiceoverLocalFile" \in segment.has /\ segment.voiceoverLocalFile # NoFile

Normalized(st) ==
  st.p.aformat = [sample_fmts |-> "fltp", sample_rates |-> 48000, channel_layouts |-> "stereo"]

\* The segment's own audio, timestamp-reset and normalized, with a volume
\* filter exactly when the volume is not 1.
IsOriginalStage(st, i, segment) ==
  /\ st.ins = <<RawA(i)>>
  /\ st.chain = (IF VolumeOf(segment) = R(1) THEN <<"asetpts", "aformat">>
                 ELSE <<"asetpts", "aformat", "volume">>)
  /\ Normalized(st)
  /\ HasFilter(st, "volume") => st.p.volume = VolumeOf(segment)

\* The segment's voiceover input, trimmed, timestamp-reset and normalized.
IsVoiceoverStage(st, i, segment, cmd, n) ==
  /\ Len(st.ins) = 1
  /\ st.ins[1][1] = "in:a"
  /\ st.ins[1][2] >= n
  /\ st.ins[1][2] < InputCount(cmd)
  /\ InputFile(cmd, st.ins[1][2]) = segment.voiceoverLocalFile
  /\ Len(st.chain) >= 3
  /\ SubSeq(st.chain, 1, 3) = <<"atrim", "asetpts", "aformat">>
  /\ st.p.atrim.start =
       (IF "voiceoverStartTime" \in segment.has THEN segment.voiceoverStartTime ELSE R(0))
  /\ st.p.atrim.duration =
       (IF "voiceoverDuration" \in segment.has THEN segment.voiceoverDuration
        ELSE IF "duration" \in segment.has THEN segment.duration ELSE R(5))
  /\ Normalized(st)

\* The segment's own audio, timestamp-reset and normalized, with volume=0.
IsMutedStage(st, i) ==
  /\ st.ins = <<RawA(i)>>
  /\ st.chain = <<"asetpts", "aformat", "volume">>
  /\ Normalized(st)
  /\ st.p.volume = R(0)

\* The per-segment labels are concatenated in segment order into [src_audio]
\* by one stage ahead of the clip stages and the mix when there are several
\* segments; the label of a single segment is used directly.
SourceAudioConcatenated(cmd, n) ==
  LET graph == GraphOf(cmd)
      concats == {j \in 1..Len(graph) : graph[j].out = Lbl("src_audio", -1)}
  IN /\ n > 1 =>
          /\ Cardinality(concats) = 1
          /\ \A j \in concats :
               /\ graph[j].chain = <<"concat">>
               /\ graph[j].p = [n |-> n, v |-> 0, a |-> 1]
               /\ Len(graph[j].ins) = n
               /\ \A i \in 0..(n - 1) :
                    /\ graph[j].ins[i + 1][2] = i
                    /\ \E k \in SegAudioStages(graph, i) :
                         k < j /\ graph[k].out = graph[j].ins[i + 1]
               /\ \A k \in 1..Len(graph) :
                    (graph[k].out[1] = "overlay_a" \/ HasFilter(graph[k], "amix")) => j < k
     /\ n = 1 =>
          /\ concats = {}
          /\ \A k \in SegAudioStages(graph, 0) :
               \/ \E i \in AudioMaps(cmd) : MapLabel(cmd, i) = graph[k].out
               \/ \E j \in StagesWith(graph, "amix") : graph[j].ins[1] = graph[k].out

-----------------------------------------------------------------------------
(* Claims about the timing of an image job (checked under Spec)            *)

\* The duration build_ffmpeg_command reads from a segment or clip dict.
DurationOf(item, default) == IF "duration" \in item.has THEN item.duration ELSE default

\* C13: a segment or audio clip whose duration is zero or negative, or whose
\* frame count is 0, is rejected when the command is compiled: no compilation
\* completes with a command for such a job, nor with a d=0 motion stage.
C13_DegenerateDurationRejected ==
  ImageDone =>
    /\ \A i \in 1..Len(args.segments) : RLt(R(0), DurationOf(args.segments[i], R(5)))
    /\ \A i \in 1..Len(args.audio_clips) : RLt(R(0), DurationOf(args.audio_clips[i], R(10)))
    /\ \A j \in StagesWith(GraphOf(ret), "zoompan") : GraphOf(ret)[j].p.d > 0

\* round(x) for x >= 0, a fractional part of one half or more rounding up.
RoundHalfUp(x) == RTrunc(RAdd(x, Frac(1, 2)))

\* C16: for every image segment the frame count emitted as d=D equals
\* round(duration_seconds * fps).
C16_FramesRounded ==
  ImageDone =>
    \A i \in 1..Len(args.segments) :
      \A j \in StagesWith(GraphOf(ret), "zoompan") :
        GraphOf(ret)[j].out = Lbl("v", i - 1) =>
          GraphOf(ret)[j].p.d =
            RoundHalfUp(RMul(DurationOf(args.segments[i], R(5)), R(args.fps)))

-----------------------------------------------------------------------------
(* render.py: the orchestrator of one job                                  *)
(* fn = "main"; args holds the environment and the job specification; ret  *)
(* holds the locals of the run; history is the sequence of the run's       *)
(* outward events: error logs, callbacks attempted, engine runs, uploads.  *)

Event(f, status, progress, msg, ok) ==
  [fn |-> f, status |-> status, progress |-> progress, msg |-> msg, ok |-> ok]

\* log(message, 'ERROR')
LogError(message) == <<Event("log", "ERROR", 0, message, TRUE)>>

send_callback_DropsFailed(callback_url, status, progress, error, delivered) ==
  IF status = "FAILED" THEN <<>>
  ELSE <<Event("send_callback", status, progress, error, callback_url # "" /\ delivered)>>

\* A call of send_callback; ok tells whether the notification reached the
\* callback URL: without a URL the function returns before posting, and a
\* delivery that fails is caught and logged.
send_callback(callback_url, status, progress, error, delivered) ==
  <<Event("send_callback", status, progress, error, callback_url # "" /\ delivered)>>

\* The segment list key and the source reference key of a render mode.
SourceKey(mode) == IF mode = "concatenate" THEN "videoUrl" ELSE "imageUrl"

AssetType(mode) == IF mode = "concatenate" THEN "video" ELSE "image"

\* f"Segment {i} missing image" / f"Segment {i} missing video"
MissingError(mode, i) == [text |-> "Segment {i} missing " \o AssetType(mode), index |-> i]

\* f"Failed to download image {i}" / f"Failed to download video {i}"
DownloadError(mode, i) == [text |-> "Failed to download " \o AssetType(mode) \o " {i}", index |-> i]

\* A message that names no segment.
Message(s) == [text |-> s, index |-> -1]

\* "render_mode = render_mode_env or job_spec.get('renderMode', 'ken_burns')"
RenderMode(env, job_spec) ==
  IF env.RENDER_MODE # "" THEN env.RENDER_MODE
  ELSE Get(job_spec, "renderMode", "ken_burns")

\* "if render_mode == 'concatenate': ... else: render_ken_burns(...)"
Route(render_mode) == IF render_mode = "concatenate" THEN "concatenate" ELSE "ken_burns"

\* The text_overlays argument render_video_concatenation passes to
\* build_concat_ffmpeg_command: none (the parameter keeps its default None).
PassedTextOverlays(job_spec) == <<>>

AfterRunFfmpeg_IgnoresResult(success) == "finish_render"

\* "if not success: ... sys.exit(1)"
AfterRunFfmpeg(success) == IF success THEN "finish_render" ELSE "exit"

Exit(code, events) ==
  /\ pc' = "exit"
  /\ ret' = [ret EXCEPT !.exit = code]
  /\ history' = history \o events

\* main(): read the job specification and route on the render mode; the
\* render function then announces PROCESSING 10.
Main ==
  /\ pc = "main"
  /\ fn = "main"
  /\ \E downloaded \in BOOLEAN, delivered \in BOOLEAN :
       IF ~downloaded
       THEN Exit(1, LogError(Message("Failed to download job spec")))
       ELSE LET render_mode == RenderMode(args.env, args.job_spec)
                mode == Route(render_mode)
            IN /\ ret' = [ret EXCEPT
                            !.mode = mode,
                            !.segments = IF mode = "concatenate"
                                         THEN Get(args.job_spec, "videoSegments", <<>>)
                                         ELSE Get(args.job_spec, "segments", <<>>),
                            !.audio_clips = Get(args.job_spec, "audioClips", <<>>)]
               /\ history' = history \o
                    send_callback(args.env.CALLBACK_URL, "PROCESSING", 10, Message(""), delivered)
               /\ pc' = "download_segments"
  /\ UNCHANGED <<fn, args, fontFiles>>

\* One turn of the segment download loop, for segment ret.i.
DownloadSegment ==
  /\ pc = "download_segments"
  /\ ret.i < Len(ret.segments)
  /\ LET i == ret.i
         segment == ret.segments[i + 1]
         url == Get(segment, SourceKey(ret.mode), "")
     IN \E ok \in BOOLEAN, delivered \in BOOLEAN :
          IF url = ""
          THEN /\ Exit(1, LogError([text |-> "Segment {i} has no " \o SourceKey(ret.mode), index |-> i])
                          \o send_callback(args.env.CALLBACK_URL, "FAILED", 0,
                                           MissingError(ret.mode, i), delivered))
          ELSE IF ~ok
          THEN Exit(1, LogError(DownloadError(ret.mode, i))
                       \o send_callback(args.env.CALLBACK_URL, "FAILED", 0,
                                        DownloadError(ret.mode, i), delivered))
          ELSE /\ ret' = [ret EXCEPT !.i = i + 1,
                            !.segments[i + 1].localFile = <<AssetType(ret.mode), i>>]
               /\ UNCHANGED <<pc, history>>
  /\ UNCHANGED <<fn, args, fontFiles>>

\* After the segment loop: PROCESSING 30, the audio download loop (a clip
\* without a URL or whose download fails is left out), PROCESSING 50.
DownloadAudio ==
  /\ pc = "download_segments"
  /\ ret.i = Len(ret.segments)
  /\ \E got \in SUBSET {j \in 1..Len(ret.audio_clips) : Get(ret.audio_clips[j], "url", "") # ""},
        d30 \in BOOLEAN, d50 \in BOOLEAN :
       LET kept == SelectSeq([j \in 1..Len(ret.audio_clips) |->
                                [clip |-> ret.audio_clips[j], at |-> j]],
                             LAMBDA c : c.at \in got)
       IN /\ ret' = [ret EXCEPT !.audio_clips_with_files =
                       [j \in 1..Len(kept) |->
                          [kept[j].clip EXCEPT !.localFile = <<"audio", kept[j].at - 1>>]]]
          /\ history' = history
               \o send_callback(args.env.CALLBACK_URL, "PROCESSING", 30, Message(""), d30)
               \o send_callback(args.env.CALLBACK_URL, "PROCESSING", 50, Message(""), d50)
  /\ pc' = "compile"
  /\ UNCHANGED <<fn, args, fontFiles>>

OutputFile == "/tmp/output/job.mp4"

\* Build the command with the builder of the mode, then PROCESSING 60.
Compile ==
  /\ pc = "compile"
  /\ \E delivered \in BOOLEAN :
       /\ ret' = [ret EXCEPT !.cmd =
            IF ret.mode = "concatenate"
            THEN build_concat_ffmpeg_command(ret.segments, ret.audio_clips_with_files,
                   OutputFile, Get(args.job_spec, "resolution", "1080p"),
                   Get(args.job_spec, "fps", 24), "/tmp",
                   Get(args.job_spec, "includeSegmentAudio", TRUE),
                   Get(args.job_spec, "segmentAudioVolume", R(1)),
                   PassedTextOverlays(args.job_spec))
            ELSE build_ffmpeg_command(ret.segments, ret.audio_clips_with_files,
                   OutputFile, Get(args.job_spec, "resolution", "1080p"),
                   Get(args.job_spec, "fps", 24), "/tmp")]
       /\ history' = history
            \o send_callback(args.env.CALLBACK_URL, "PROCESSING", 60, Message(""), delivered)
  /\ pc' = "run_ffmpeg"
  /\ UNCHANGED <<fn, args, fontFiles>>

\* run_ffmpeg returns False on a non-zero exit, a timeout or an exception.
RunFfmpeg ==
  /\ pc = "run_ffmpeg"
  /\ \E success \in BOOLEAN, delivered \in BOOLEAN :
       LET run == <<Event("run_ffmpeg", "", 0, Message(""), success)>>
       IN IF AfterRunFfmpeg(success) = "exit"
          THEN Exit(1, run \o LogError(Message("FFmpeg render failed"))
                       \o send_callback(args.env.CALLBACK_URL, "FAILED", 0,
                                        Message("FFmpeg render failed"), delivered))
          ELSE /\ history' = history \o run
               /\ pc' = "finish_render"
               /\ UNCHANGED ret
  /\ UNCHANGED <<fn, args, fontFiles>>

\* finish_render: PROCESSING 90, upload, COMPLETED 100.
FinishRender ==
  /\ pc = "finish_render"
  /\ \E uploaded \in BOOLEAN, d90 \in BOOLEAN, delivered \in BOOLEAN :
       LET output_path_gcs == Get(args.job_spec, "outputPath", "")
           notice == send_callback(args.env.CALLBACK_URL, "PROCESSING", 90, Message(""), d90)
       IN IF output_path_gcs = ""
          THEN /\ Exit(1, notice \o LogError(Message("No output path specified"))
                          \o send_callback(args.env.CALLBACK_URL, "FAILED", 0,
                                           Message("No output path specified"), delivered))
          ELSE IF ~uploaded
          THEN Exit(1, notice \o <<Event("upload_to_gcs", "", 0, Message(""), FALSE)>>
                       \o LogError(Message("Failed to upload output"))
                       \o send_callback(args.env.CALLBACK_URL, "FAILED", 0,
                                        Message("Failed to upload output"), delivered))
          ELSE Exit(0, notice \o <<Event("upload_to_gcs", "", 0, Message(""), TRUE)>>
                       \o send_callback(args.env.CALLBACK_URL, "COMPLETED", 100,
                                        Message(""), delivered))
  /\ UNCHANGED <<fn, args, fontFiles>>

NextRender ==
  Main \/ DownloadSegment \/ DownloadAudio \/ Compile \/ RunFfmpeg \/ FinishRender

\* A segment of a job specification: its source reference present or not,
\* no local file yet.
RenderSegment(mode, present, i) ==
  LET base == IF mode = "concatenate" THEN VideoSegmentOf("original", i)
              ELSE ImageSegmentOf("explicit", i)
      withUrl == IF mode = "concatenate" THEN [videoUrl |-> "gs://bucket/video"] @@ base
                 ELSE [imageUrl |-> "gs://bucket/image"] @@ base
  IN [withUrl EXCEPT !.localFile = NoFile,
                     !.has = base.has \cup (IF present THEN {SourceKey(mode)} ELSE {})]

RenderSegments(mode) ==
  UNION {{[j \in 1..n |-> RenderSegment(mode, ps[j], j - 1)] : ps \in [1..n -> BOOLEAN]} :
           n \in 0..MaxSegs}

\* The i-th audio clip of a job specification: every other clip has no URL.
RenderClip(i) ==
  [([url |-> "gs://bucket/audio"] @@ AudioClipAt(i)) EXCEPT
     !.localFile = NoFile,
     !.has = AudioClipAt(i).has \cup (IF i % 2 = 0 THEN {"url"} ELSE {})]

RenderClips == {[j \in 1..k |-> RenderClip(j - 1)] : k \in 0..MaxClips}

\* The environment and job specification of a run: the default mode, the
\* concatenate mode set by the job or by the environment, an unknown mode.
RenderJobs ==
  {[env |-> [RENDER_MODE |-> m.env, CALLBACK_URL |-> cb],
    job_spec |-> [has |-> m.has \cup {"audioClips"} \cup (IF out = "" THEN {} ELSE {"outputPath"})
                          \cup (IF k = 0 THEN {} ELSE {"textOverlays"}),
                  renderMode |-> m.job, segments |-> ss, videoSegments |-> ss,
                  audioClips |-> cs, outputPath |-> out,
                  textOverlays |-> [j \in 1..k |-> OverlayAt(j - 1)]]] :
     m \in {[env |-> "", job |-> "ken_burns", has |-> {"segments"}],
            [env |-> "", job |-> "concatenate", has |-> {"renderMode", "videoSegments"}],
            [env |-> "concatenate", job |-> "ken_burns", has |-> {"renderMode", "videoSegments"}],
            [env |-> "", job |-> "slideshow", has |-> {"renderMode", "segments"}]},
     ss \in RenderSegments("ken_burns") \cup RenderSegments("concatenate"),
     cs \in RenderClips, out \in {"", "gs://bucket/out.mp4"},
     cb \in {"", "https://app/callback"}, k \in {0, 2}}

InitRender ==
  /\ pc = "main"
  /\ fn = "main"
  /\ args \in {a \in RenderJobs :
       /\ \A j \in 1..Len(a.job_spec.segments) :
            (a.job_spec.segments[j].localFile = NoFile) /\
            (("videoSegments" \in a.job_spec.has) <=> ("audioSource" \in DOMAIN a.job_spec.segments[j]))
       /\ (a.job_spec.textOverlays # <<>>) => ("videoSegments" \in a.job_spec.has)}
  /\ ret = [mode |-> "", segments |-> <<>>, audio_clips |-> <<>>,
            audio_clips_with_files |-> <<>>, i |-> 0, cmd |-> <<>>, exit |-> -1]
  /\ fontFiles = {}
  /\ history = <<>>

SpecRender == InitRender /\ [][NextRender]_vars

-----------------------------------------------------------------------------
(* Claims about the orchestrator (checked under SpecRender)                *)

EventsAt(f) == {e \in 1..Len(history) : history[e].fn = f}

Callbacks(status) == {e \in EventsAt("send_callback") : history[e].status = status}

\* The segment list main() hands to the render function of the routed mode.
RoutedSegments ==
  IF RenderMode(args.env, args.job_spec) = "concatenate"
  THEN Get(args.job_spec, "videoSegments", <<>>)
  ELSE Get(args.job_spec, "segments", <<>>)

RequiredKey ==
  IF RenderMode(args.env, args.job_spec) = "concatenate" THEN "videoUrl" ELSE "imageUrl"

\* The 0-based indices of the segments without their source reference.
MissingRefs ==
  {i \in 0..(Len(RoutedSegments) - 1) : RequiredKey \notin RoutedSegments[i + 1].has}

UnsupportedMode == RenderMode(args.env, args.job_spec) \notin {"ken_burns", "concatenate"}

\* C14: every specification error is fatal before the engine runs: with an
\* unsupported render mode or a segment without its source reference the run
\* never invokes run_ffmpeg and ends in failure, and an error reported for a
\* missing source reference carries the index of such a segment.
C14_SpecErrorsFatalBeforeEngine ==
  (fn = "main" /\ (UnsupportedMode \/ MissingRefs # {})) =>
    /\ EventsAt("run_ffmpeg") = {}
    /\ pc = "exit" => ret.exit = 1
    /\ \A e \in Callbacks("FAILED") :
         history[e].msg.index >= 0 /\ history[e].msg.text \in
           {"Segment {i} missing image", "Segment {i} missing video"}
           => history[e].msg.index \in MissingRefs

\* C15: engine failure and upload failure are both fatal and reported with
\* their own messages: a failed engine run is the only engine run, no upload
\* follows it and the run exits 1 reporting "FFmpeg render failed"; a failed
\* upload follows a successful engine run and the run exits 1 reporting
\* "Failed to upload output"; neither run attempts a COMPLETED callback.
C15_EngineAndUploadFailuresFatal ==
  fn = "main" =>
    /\ \A r \in EventsAt("run_ffmpeg") :
         ~history[r].ok =>
           /\ EventsAt("run_ffmpeg") = {r}
           /\ EventsAt("upload_to_gcs") = {}
           /\ Callbacks("COMPLETED") = {}
           /\ pc = "exit" /\ ret.exit = 1
           /\ \E l \in EventsAt("log") : l > r /\ history[l].msg.text = "FFmpeg render failed"
           /\ \A c \in Callbacks("FAILED") : history[c].msg.text = "FFmpeg render failed"
           /\ args.env.CALLBACK_URL # "" => Cardinality(Callbacks("FAILED")) = 1
    /\ \A u \in EventsAt("upload_to_gcs") :
         ~history[u].ok =>
           /\ EventsAt("upload_to_gcs") = {u}
           /\ \E r \in EventsAt("run_ffmpeg") : r < u /\ history[r].ok
           /\ Callbacks("COMPLETED") = {}
           /\ pc = "exit" /\ ret.exit = 1
           /\ \E l \in EventsAt("log") : l > u /\ history[l].msg.text = "Failed to upload output"
           /\ \A c \in Callbacks("FAILED") : history[c].msg.text = "Failed to upload output"
           /\ args.env.CALLBACK_URL # "" => Cardinality(Callbacks("FAILED")) = 1
    /\ \A c \in Callbacks("FAILED") :
         history[c].msg.text = "FFmpeg render failed" =>
           \E r \in EventsAt("run_ffmpeg") : ~history[r].ok
    /\ \A c \in Callbacks("FAILED") :
         history[c].msg.text = "Failed to upload output" =>
           \E u \in EventsAt("upload_to_gcs") : ~history[u].ok

\* C15 witness: a run whose engine succeeded and whose upload failed has
\* exited after attempting the FAILED callback of the upload.
C15_Witness ==
  /\ fn = "main"
  /\ pc = "exit"
  /\ \E r \in EventsAt("run_ffmpeg") : history[r].ok
  /\ \E u \in EventsAt("upload_to_gcs") : ~history[u].ok
  /\ \E c \in Callbacks("FAILED") : history[c].msg.text = "Failed to upload output"

\* C18: for a concatenation job whose specification holds K >= 1 text
\* overlays, the command the orchestrator compiles has K drawtext stages
\* after the video concatenation stage, the first consuming the concatenated
\* video label, and maps the label the last drawtext stage writes.
C18_OrchestratorAppliesOverlays ==
  (/\ fn = "main"
   /\ ret.mode = "concatenate"
   /\ ret.cmd # <<>>
   /\ Len(ret.segments) >= 1
   /\ Len(Get(args.job_spec, "textOverlays", <<>>)) >= 1) =>
    LET graph == GraphOf(ret.cmd)
        K == Len(Get(args.job_spec, "textOverlays", <<>>))
        texts == StagesWith(graph, "drawtext")
        source == IF Len(ret.segments) > 1 THEN Lbl("outv", -1) ELSE Lbl("v", 0)
    IN /\ Cardinality(texts) = K
       /\ \A t \in texts : \A c \in StagesWith(graph, "concat") :
            graph[c].out = Lbl("outv", -1) => c < t
       /\ \E t \in texts : graph[t].ins = <<source>> /\ \A o \in texts : t <= o
       /\ \E t \in texts :
            /\ \A o \in texts : o <= t
            /\ \A i \in VideoMaps(ret.cmd) : MapLabel(ret.cmd, i) = graph[t].out

-----------------------------------------------------------------------------
(* The text overlay chain on its own                                       *)

OverlayOfKind(kind, i) == OverlayAt(kind)

TextOverlayCalls ==
  {[text_overlays |-> os, input_label |-> il, output_label |-> ol,
    width |-> RESOLUTIONS(res).width, height |-> RESOLUTIONS(res).height] :
     os \in ListsOf({0, 1}, MaxOverlays, OverlayOfKind),
     il \in {Lbl("outv", -1), Lbl("v", 0)},
     ol \in {Lbl("finalv", -1), Lbl("final", -1)},
     res \in {"720p", "1080p"}}

InitTextOverlays ==
  /\ pc = "call"
  /\ fn = "build_text_overlay_filters"
  /\ args \in TextOverlayCalls
  /\ fontFiles \in FontDiskChoices
  /\ ret = <<>>
  /\ history = <<>>

CallBuildTextOverlayFilters ==
  /\ pc = "call"
  /\ fn = "build_text_overlay_filters"
  /\ ret' = build_text_overlay_filters(args.text_overlays, args.input_label,
                                       args.output_label, args.width, args.height)
  /\ pc' = "done"
  /\ UNCHANGED <<fn, args, fontFiles, history>>

NextTextOverlays == CallBuildTextOverlayFilters

SpecTextOverlays == InitTextOverlays /\ [][NextTextOverlays]_vars

TextOverlaysDone == pc = "done" /\ fn = "build_text_overlay_filters"

-----------------------------------------------------------------------------
(* escape_drawtext on its own                                              *)

TextAlphabet == {"a", " ", "\\", "'", ":", "%"}

Texts == UNION {[1..n -> TextAlphabet] : n \in 0..MaxText}

InitEscape ==
  /\ pc = "call"
  /\ fn = "escape_drawtext"
  /\ \E t \in Texts : args = [text |-> t]
  /\ fontFiles = {}
  /\ ret = <<>>
  /\ history = <<>>

CallEscapeDrawtext ==
  /\ pc = "call"
  /\ fn = "escape_drawtext"
  /\ ret' = escape_drawtext(args.text)
  /\ pc' = "done"
  /\ UNCHANGED <<fn, args, fontFiles, history>>

NextEscape == CallEscapeDrawtext

SpecEscape == InitEscape /\ [][NextEscape]_vars

EscapeDone == pc = "done" /\ fn = "escape_drawtext"

\* What one input character becomes: a backslash an escaped backslash
\* sequence, a quote, colon or percent itself behind one backslash, any other
\* character itself.
EscapedChar(c) ==
  IF c = "\\" THEN <<"\\", "\\", "\\", "\\">>
  ELSE IF c \in {"'", ":", "%"} THEN <<"\\", c>>
  ELSE <<c>>

\* C19: the output of escape_drawtext is the input with, in the original
\* order, every backslash replaced by an escaped backslash sequence, every
\* quote, colon and percent immediately preceded by one backslash that is not
\* itself escaped again, and every other character unchanged.
C19_EscapesFourCharacters ==
  EscapeDone =>
    /\ ret = Flatten([i \in 1..Len(args.text) |-> EscapedChar(args.text[i])])
    /\ \A i \in 1..Len(ret) :
         ret[i] \in {"'", ":", "%"} => (i > 1 /\ ret[i - 1] = "\\")

\* C19 witness: a text with a backslash followed by a colon was escaped to
\* four backslashes, a backslash and the colon.
C19_Witness ==
  /\ EscapeDone
  /\ args.text = <<"\\", ":", "a">>
  /\ ret = <<"\\", "\\", "\\", "\\", "\\", ":", "a">>

-----------------------------------------------------------------------------
(* Input indices of a concatenation job (checked under Spec)               *)

\* The stages of the graph that write the label l.
Producers(graph, l) == {j \in 1..Len(graph) : graph[j].out = l}

\* The stage reads exactly the stream of medium kind ("in:v"/"in:a") of the
\* command's input that holds the file.
ReadsFile(cmd, st, kind, file) ==
  /\ Len(st.ins) = 1
  /\ st.ins[1][1] = kind
  /\ st.ins[1][2] >= 0
  /\ st.ins[1][2] < InputCount(cmd)
  /\ InputFile(cmd, st.ins[1][2]) = file

\* C20: in the command of build_concat_ffmpeg_command every [k:v]/[k:a]
\* reference names the position of the intended file in the -i list: segment
\* i's video and original or muted audio read input i, which is the segment's
\* file; a voiceover stage reads the input holding that segment's voiceover
\* file; overlay clip j reads the input holding clip j's file; and no stage
\* references an index at or beyond the number of inputs.
C20_InputIndices ==
  ConcatDone =>
    LET graph == GraphOf(ret)
        n == Len(args.video_segments)
    IN /\ InputCount(ret) =
            n + Cardinality({i \in 1..n : SourceOf(args.video_segments[i]) = "voiceover"
                                          /\ HasVoiceoverFile(args.video_segments[i])})
            + Len(args.audio_clips)
       /\ \A j \in 1..Len(graph) : \A c \in 1..Len(graph[j].ins) :
            IsRaw(graph[j].ins[c]) =>
              graph[j].ins[c][2] >= 0 /\ graph[j].ins[c][2] < InputCount(ret)
       /\ \A i \in 0..(n - 1) :
            /\ Cardinality(Producers(graph, Lbl("v", i))) = 1
            /\ \A j \in Producers(graph, Lbl("v", i)) :
                 /\ graph[j].ins = <<RawV(i)>>
                 /\ ReadsFile(ret, graph[j], "in:v", args.video_segments[i + 1].localFile)
            /\ \A j \in Producers(graph, Lbl("seg_audio", i)) :
                 /\ graph[j].ins = <<RawA(i)>>
                 /\ ReadsFile(ret, graph[j], "in:a", args.video_segments[i + 1].localFile)
            /\ \A j \in Producers(graph, Lbl("vo_audio", i)) :
                 ReadsFile(ret, graph[j], "in:a", args.video_segments[i + 1].voiceoverLocalFile)
            /\ Cardinality(Producers(graph, Lbl("seg_audio", i))
                           \cup Producers(graph, Lbl("vo_audio", i))) = 1
       /\ \A c \in 0..(Len(args.audio_clips) - 1) :
            /\ Cardinality(Producers(graph, Lbl("overlay_a", c))) = 1
            /\ \A j \in Producers(graph, Lbl("overlay_a", c)) :
                 ReadsFile(ret, graph[j], "in:a", args.audio_clips[c + 1].localFile)

\* C20 witness: a job of an original segment, a voiceover segment with its
\* file and one clip was compiled: the voiceover stage reads input 2 and the
\* clip stage input 3.
C20_Witness ==
  /\ ConcatDone
  /\ Len(args.video_segments) = 2
  /\ Len(args.audio_clips) = 1
  /\ SourceOf(args.video_segments[1]) = "original"
  /\ \E j \in Producers(GraphOf(ret), Lbl("vo_audio", 1)) :
       GraphOf(ret)[j].ins = <<RawA(2)>>
  /\ \E j \in Producers(GraphOf(ret), Lbl("overlay_a", 0)) :
       GraphOf(ret)[j].ins = <<RawA(3)>>
  /\ InputCount(ret) = 4

-----------------------------------------------------------------------------
(* Status callbacks of a run (checked under SpecRender)                    *)

\* The calls of send_callback the run has made, in order.
CallbackSeq == SelectSeq(history, LAMBDA e : e.fn = "send_callback")

ProgressSteps == <<10, 30, 50, 60, 90>>

\* C21: in every run of a render function the callbacks attempted are
\* PROCESSING notifications with the progress values 10, 30, 50, 60, 90 in
\* that order (a prefix of them), then exactly one terminal notification
\* (COMPLETED 100 or FAILED 0) that ends the run; COMPLETED is attempted only
\* when every segment asset downloaded, the engine succeeded and the upload
\* succeeded; and the steps taken and the exit code do not depend on whether
\* a callback was delivered.
C21_CallbackOrdering ==
  (fn = "main" /\ ret.mode # "") =>
    LET cbs == CallbackSeq
        n == Len(cbs)
    IN /\ \A i \in 1..n :
            /\ cbs[i].status \in {"PROCESSING", "COMPLETED", "FAILED"}
            /\ cbs[i].status = "PROCESSING" =>
                 i <= Len(ProgressSteps) /\ cbs[i].progress = ProgressSteps[i]
            /\ cbs[i].status = "COMPLETED" => cbs[i].progress = 100
            /\ cbs[i].status = "FAILED" => cbs[i].progress = 0
            /\ cbs[i].status # "PROCESSING" => (i = n /\ pc = "exit")
       /\ pc = "exit" => (n >= 1 /\ cbs[n].status # "PROCESSING")
       /\ pc # "exit" => n >= 1
       /\ \A i \in 1..n :
            cbs[i].status = "COMPLETED" =>
              /\ ret.i = Len(ret.segments)
              /\ \A j \in 1..Len(ret.segments) : ret.segments[j].localFile # NoFile
              /\ \E r \in EventsAt("run_ffmpeg") : history[r].ok
              /\ \E u \in EventsAt("upload_to_gcs") : history[u].ok
              /\ ret.exit = 0
       /\ pc = "exit" => (ret.exit = 0 <=> cbs[n].status = "COMPLETED")
       /\ pc = "exit" => (ret.exit = 0 <=> \E u \in EventsAt("upload_to_gcs") : history[u].ok)
       /\ EventsAt("run_ffmpeg") # {} =>
            (n >= 4 /\ \A i \in 1..4 : cbs[i].status = "PROCESSING")
       /\ EventsAt("upload_to_gcs") # {} =>
            (n >= 5 /\ \A i \in 1..5 : cbs[i].status = "PROCESSING")

\* C21 witness: a run with a callback URL whose PROCESSING 30 notification
\* was not delivered has gone on to attempt 50, 60, 90 and COMPLETED 100.
C21_Witness ==
  /\ fn = "main"
  /\ pc = "exit"
  /\ args.env.CALLBACK_URL # ""
  /\ Len(CallbackSeq) = 6
  /\ ~CallbackSeq[2].ok
  /\ CallbackSeq[5].ok
  /\ CallbackSeq[6].status = "COMPLETED"
  /\ ret.exit = 0

-----------------------------------------------------------------------------
(* The same concatenation job compiled with include_segment_audio set and  *)
(* cleared                                                                 *)

FlagJobs ==
  {[video_segments |-> ss, audio_clips |-> cs, output_path |-> "/tmp/output/job.mp4",
    resolution |-> "1080p", fps |-> 24, temp_dir |-> "/tmp",
    include_segment_audio |-> inc, segment_audio_volume |-> vol, text_overlays |-> <<>>] :
     ss \in ListsOf(VideoKinds, MaxSegs, VideoSegmentOf),
     cs \in ClipLists(MaxClips),
     inc \in BOOLEAN, vol \in {R(1), Frac(4, 5)}}

InitFlag ==
  /\ pc = "call"
  /\ fn = "build_concat_ffmpeg_command"
  /\ args \in FlagJobs
  /\ ret = <<>>
  /\ fontFiles = {}
  /\ history = <<>>

\* The caller compiles the job again with the other value of the flag.
CompileWithOtherFlag ==
  /\ pc = "done"
  /\ fn = "build_concat_ffmpeg_command"
  /\ Len(history) = 1
  /\ args' = [args EXCEPT !.include_segment_audio = ~args.include_segment_audio]
  /\ pc' = "call"
  /\ UNCHANGED <<fn, ret, fontFiles, history>>

NextFlag == CallBuildConcatFfmpegCommand \/ CompileWithOtherFlag

SpecFlag == InitFlag /\ [][NextFlag]_vars

\* Every segment's audio stage is in the graph and feeds the source audio:
\* the [src_audio] concat of several segments, or the mix or audio map for one.
SegmentAudioKept(cmd, job) ==
  LET graph == GraphOf(cmd)
      n == Len(job.video_segments)
  IN \A i \in 0..(n - 1) :
       /\ Cardinality(SegAudioStages(graph, i)) = 1
       /\ \A j \in SegAudioStages(graph, i) :
            IF n > 1
            THEN \E c \in Producers(graph, Lbl("src_audio", -1)) :
                   graph[c].ins[i + 1] = graph[j].out
            ELSE \/ \E a \in AudioMaps(cmd) : MapLabel(cmd, a) = graph[j].out
                 \/ \E x \in StagesWith(graph, "amix") : graph[x].ins[1] = graph[j].out

-----------------------------------------------------------------------------
(* The video output of a job with any segment list (checked under Spec)    *)

\* C23: for every segment list, the empty one included, and any text
\* overlays, the label passed to the video -map and the input label of the
\* first text overlay stage are labels some stage of the graph produces.
C23_VideoLabelsProduced ==
  CompileDone =>
    LET graph == GraphOf(ret)
        texts == StagesWith(graph, "drawtext")
    IN /\ \A i \in VideoMaps(ret) : Producers(graph, MapLabel(ret, i)) # {}
       /\ \A t \in texts :
            (\A o \in texts : t <= o) =>
              \A c \in 1..Len(graph[t].ins) : Producers(graph, graph[t].ins[c]) # {}

====
